---------------------------- MODULE Spec2Model ----------------------------
(***************************************************************************)
(* django-db-views: the migration graph walker, the view state operations  *)
(* and the detection pass of ViewMigrationAutoDetector.                     *)
(*                                                                         *)
(* Text is a sequence of one-character strings.  " " is whitespace, ";"    *)
(* the statement terminator, "k"/"K" a keyword character, "x"/"X", "y",    *)
(* "z", "w" identifier characters, "_" the underscore.                     *)
(***************************************************************************)
EXTENDS Integers, Sequences, FiniteSets, TLC

VARIABLES
    graph,          \* MigrationGraph: nodes (key -> operations), parents (key -> keys)
    walk_args,      \* arguments of the last get_previous_view_definition_state call
    walk_result,    \* its outcome: a returned text or a raised AssertionError
    is_view_migration,  \* VIEW_MIGRATION_CONTEXT["is_view_migration"]
    state,          \* ProjectState.models: (app_label, name) -> DBViewModelState
    prev_state,     \* the models before the last state_forwards call
    applied,        \* the last state_forwards call: app_label, operation, outcome
    from_state,     \* the detector's previous snapshot (the history applied to a state)
    apps,           \* the live models: view models (DBViewsRegistry) and their definitions
    old_models,     \* the plain (non-view) model states of the previous snapshot
    new_models,     \* the plain model states of the current snapshot
    pc,             \* the phase _detect_changes is about to run
    migrations,     \* self.migrations, the result of the pass
    phases,         \* the phases run so far, in order
    field_keys,     \* old_field_keys, new_field_keys, renamed_fields of the pass
    generated_operations,   \* app_label -> the operations added so far
    recorded,       \* the number of passes whose result was written as a migration
    reduction,      \* the last AddFieldComment.reduce call: self, operation, result
    schema_editor,  \* the schema editor of a migration: its add_field, remove_field, _alter_field
    database        \* the columns (null, comment) of the plain model's table; the last call

walkVars == <<graph, walk_args, walk_result>>
stateVars == <<is_view_migration, state, prev_state, applied>>
modelVars == <<apps, old_models, new_models>>
passVars == <<from_state, pc, phases, field_keys, generated_operations, migrations>>
otherVars == <<recorded, reduction, schema_editor, database>>
detectVars == <<modelVars, passVars, otherVars>>

vars == <<walkVars, stateVars, detectVars>>

----------------------------------------------------------------------------
(* Bounds of the model *)

MaxNodes == 3
MaxTotalOps == 2

----------------------------------------------------------------------------
(* Text helpers: Python str.strip(), str.strip(chars), str.lower() *)

Whitespace == {" "}

RECURSIVE LStrip(_, _)
LStrip(s, chars) ==
    IF s # <<>> /\ Head(s) \in chars THEN LStrip(Tail(s), chars) ELSE s

RECURSIVE RStrip(_, _)
RStrip(s, chars) ==
    IF s # <<>> /\ s[Len(s)] \in chars
    THEN RStrip(SubSeq(s, 1, Len(s) - 1), chars)
    ELSE s

StripChars(s, chars) == RStrip(LStrip(s, chars), chars)

Strip(s) == StripChars(s, Whitespace)

LowerChar(c) ==
    CASE c = "K" -> "k"
      [] c = "X" -> "x"
      [] c = "T" -> "t"
      [] c = "None" -> "none"
      [] OTHER -> c

Lower(s) == [i \in 1..Len(s) |-> LowerChar(s[i])]

----------------------------------------------------------------------------
(* Names *)

None == <<"None">>          \* Python None (formats as "None", is falsy)
Truthy(v) == v # None /\ v # <<>>

App == "a"                  \* the application under detection
OtherApp == "b"             \* another application of the project
Apps == {App, OtherApp}

T1 == <<"t">>
T2 == <<"u">>
E1 == <<"e">>               \* settings.DATABASES["default"]["ENGINE"]
E2 == <<"f">>
DefaultEngine == E1

----------------------------------------------------------------------------
(* Migration operations.  Every operation is a record of one shape:        *)
(* kind, table_name, view_engine, view_definition (of operation.code),      *)
(* base (view or materialized view), reverse_definition (the view           *)
(* definition of operation.reverse_code), atomic, dependencies, and for     *)
(* SeparateDatabaseAndState its database_operations and state_operations.   *)

RunPython(kind, table, engine, definition, base, reverse_definition, atomic, dependencies) ==
    [kind |-> kind, table_name |-> table, view_engine |-> engine,
     view_definition |-> definition, base |-> base,
     reverse_definition |-> reverse_definition, atomic |-> atomic,
     dependencies |-> dependencies,
     database_operations |-> <<>>, state_operations |-> <<>>]

\* an operation of a migration file (atomic by default, no reverse text)
Op(kind, table, engine, definition, base) ==
    RunPython(kind, table, engine, definition, base, <<>>, TRUE, <<>>)

ViewRunPython(table, engine, definition, base) ==
    Op("ViewRunPython", table, engine, definition, base)

ViewDropRunPython(table, engine, definition, base) ==
    Op("ViewDropRunPython", table, engine, definition, base)

SeparateDatabaseAndState(database_operations, state_operations) ==
    [kind |-> "SeparateDatabaseAndState", table_name |-> <<>>, view_engine |-> None,
     view_definition |-> <<>>, base |-> "none",
     reverse_definition |-> <<>>, atomic |-> TRUE, dependencies |-> <<>>,
     database_operations |-> database_operations,
     state_operations |-> state_operations]

IsViewRunPython(op) == op.kind = "ViewRunPython"

----------------------------------------------------------------------------
(* The migration graph: graph.nodes[key] is the migration's operation list, *)
(* graph.parents[key] the keys it depends on.  A key is <<app_label, n>>;   *)
(* n orders the migration names of one application (0001_..., 0002_...).    *)

NoNode == <<"", 0>>

AppIndex(app) == IF app = App THEN 1 ELSE IF app = OtherApp THEN 2 ELSE 0

\* Python's tuple order on (app_label, name) keys
KeyLess(k1, k2) ==
    \/ AppIndex(k1[1]) < AppIndex(k2[1])
    \/ k1[1] = k2[1] /\ k1[2] < k2[2]

MinKey(S) == CHOOSE k \in S : \A j \in S : j = k \/ KeyLess(k, j)
MaxKey(S) == CHOOSE k \in S : \A j \in S : j = k \/ KeyLess(j, k)

NodesOf(g, app_label) == {k \in DOMAIN g.nodes : k[1] = app_label}

\* MigrationGraph.leaf_nodes(app): the application's nodes that no node of
\* the same application depends on
leaf_nodes(g, app_label) ==
    {k \in NodesOf(g, app_label) :
        \A c \in DOMAIN g.nodes : k \in g.parents[c] => c[1] # k[1]}

----------------------------------------------------------------------------
(* ViewMigrationAutoDetector._get_view_identifiers_from_operation *)

get_view_identifiers_from_operation(operation) ==
    <<operation.table_name,
      IF Truthy(operation.view_engine) THEN operation.view_engine ELSE DefaultEngine>>

Returned(text) == [outcome |-> "return", value |-> text]
Raised(error) == [outcome |-> error, value |-> <<>>]
NoMatch == [outcome |-> "nomatch", value |-> <<>>]

\* the text a matching operation makes the walk return
RecordedDefinitionUnstripped(operation) == operation.view_definition
RecordedDefinition(operation) == Strip(operation.view_definition)

\* the view operations the walk looks at in a SeparateDatabaseAndState
WrapperViewOperationsBothSides(operation) ==
    SelectSeq(operation.database_operations \o operation.state_operations, IsViewRunPython)
WrapperViewOperations(operation) ==
    SelectSeq(operation.database_operations, IsViewRunPython)

\* the wrapper branch (lines 310-333): assert at most one view operation,
\* return its definition when it is the one looked for
InspectWrapperFirstMatch(operation, for_table_name, engine) ==
    LET view_operations == WrapperViewOperations(operation)
        hits == SelectSeq(view_operations,
                    LAMBDA o : get_view_identifiers_from_operation(o)
                                  = <<for_table_name, engine>>)
    IN  IF hits # <<>> THEN Returned(RecordedDefinition(hits[1])) ELSE NoMatch
InspectWrapper(operation, for_table_name, engine) ==
    LET view_operations == WrapperViewOperations(operation)
    IN  IF view_operations = <<>> THEN NoMatch
        ELSE IF Len(view_operations) > 1 THEN Raised("AssertionError")
        ELSE IF get_view_identifiers_from_operation(view_operations[1])
                    = <<for_table_name, engine>>
             THEN Returned(RecordedDefinition(view_operations[1]))
             ELSE NoMatch

\* the loop over migration.operations (lines 298-333), from index i on
RECURSIVE ScanOperations(_, _, _, _)
ScanOperations(ops, i, for_table_name, engine) ==
    IF i > Len(ops) THEN NoMatch
    ELSE LET operation == ops[i]
             here ==
                 IF operation.kind = "ViewRunPython"
                 THEN IF get_view_identifiers_from_operation(operation)
                            = <<for_table_name, engine>>
                      THEN Returned(RecordedDefinition(operation))
                      ELSE NoMatch
                 ELSE IF operation.kind = "SeparateDatabaseAndState"
                 THEN InspectWrapper(operation, for_table_name, engine)
                 ELSE NoMatch
         IN  IF here.outcome # "nomatch" THEN here
             ELSE ScanOperations(ops, i + 1, for_table_name, engine)

\* lines 335-345: the parents of the same application, sorted, the last one
AnyParents(g, last_node, app_label) == g.parents[last_node]
AppParents(g, last_node, app_label) ==
    {p \in g.parents[last_node] : p[1] = app_label}

NextNodeStop(g, last_node, app_label) == NoNode
NextNodeFirst(g, last_node, app_label) ==
    LET app_parents == AppParents(g, last_node, app_label)
    IN  IF app_parents # {} THEN MinKey(app_parents) ELSE NoNode
NextNode(g, last_node, app_label) ==
    LET app_parents == AppParents(g, last_node, app_label)
    IN  IF app_parents # {} THEN MaxKey(app_parents) ELSE NoNode

\* the while loop (lines 296-346)
RECURSIVE WalkFrom(_, _, _, _, _)
WalkFrom(g, last_node, app_label, for_table_name, engine) ==
    IF last_node = NoNode THEN Returned(<<>>)
    ELSE LET found == ScanOperations(g.nodes[last_node], 1, for_table_name, engine)
         IN  IF found.outcome # "nomatch" THEN found
             ELSE WalkFrom(g, NextNode(g, last_node, app_label),
                           app_label, for_table_name, engine)

\* ViewMigrationAutoDetector.get_previous_view_definition_state
get_previous_view_definition_state(g, app_label, for_table_name, engine) ==
    LET nodes == leaf_nodes(g, app_label)
        last_node == IF nodes # {} THEN MinKey(nodes) ELSE NoNode
    IN  WalkFrom(g, last_node, app_label, for_table_name, engine)

----------------------------------------------------------------------------
(* Histories for the graph walker: migrations are written one by one, each  *)
(* depending on migrations that exist, and operations are appended to them. *)

SeqsUpTo(S, n) == UNION {[1..k -> S] : k \in 0..n}

V1 == ViewRunPython(T1, E1, <<"x">>, "view")
V2 == ViewRunPython(T1, None, <<" ", "y", " ">>, "view")
V3 == ViewRunPython(T2, E1, <<"z">>, "view")
V4 == ViewRunPython(T1, E2, <<"w">>, "materialized")
D1 == ViewDropRunPython(T1, E1, <<"x">>, "view")
VOther == ViewRunPython(T1, E1, <<"w">>, "view")

Wrappers ==
    {SeparateDatabaseAndState(db, st) :
        db \in SeqsUpTo({V1, V3}, 2), st \in {<<>>, <<V2>>}}

WalkOps == {V1, V2, V3, V4, D1} \cup Wrappers

EmptyGraph == [nodes |-> <<>>, parents |-> <<>>]

TotalOps(g) ==
    LET RECURSIVE Sum(_)
        Sum(S) == IF S = {} THEN 0
                  ELSE LET k == CHOOSE k \in S : TRUE
                       IN  Len(g.nodes[k]) + Sum(S \ {k})
    IN  Sum(NodesOf(g, App))

WithNode(g, key, ops, parents) ==
    [nodes |-> [k \in DOMAIN g.nodes \cup {key} |->
                    IF k = key THEN ops ELSE g.nodes[k]],
     parents |-> [k \in DOMAIN g.parents \cup {key} |->
                    IF k = key THEN parents ELSE g.parents[k]]]

WithOperation(g, key, op) ==
    [g EXCEPT !.nodes[key] = Append(@, op)]

NoWalk == [outcome |-> "none", value |-> <<>>]

\* a migration of the application is written, depending on existing ones
AddMigration(maxNodes) ==
    /\ Cardinality(DOMAIN graph.nodes) < maxNodes
    /\ \E parents \in SUBSET (DOMAIN graph.nodes) :
          graph' = WithNode(graph, <<App, Cardinality(NodesOf(graph, App)) + 1>>,
                            <<>>, parents)
    /\ walk_args' = <<>>
    /\ walk_result' = NoWalk
    /\ UNCHANGED <<stateVars, detectVars>>

\* the other application's initial migration, which holds a view operation
AddOtherMigration(maxNodes) ==
    /\ Cardinality(DOMAIN graph.nodes) < maxNodes
    /\ NodesOf(graph, OtherApp) = {}
    /\ graph' = WithNode(graph, <<OtherApp, 1>>, <<VOther>>, {})
    /\ walk_args' = <<>>
    /\ walk_result' = NoWalk
    /\ UNCHANGED <<stateVars, detectVars>>

\* an operation is appended to a migration of the application
AddOperation(ops, maxOps) ==
    /\ TotalOps(graph) < maxOps
    /\ \E key \in NodesOf(graph, App), op \in ops :
          graph' = WithOperation(graph, key, op)
    /\ walk_args' = <<>>
    /\ walk_result' = NoWalk
    /\ UNCHANGED <<stateVars, detectVars>>

\* get_previous_view_definition_state(graph, app_label, for_table_name, engine)
Walk ==
    /\ \E engine \in {E1, E2} :
          /\ walk_args' = <<App, T1, engine>>
          /\ walk_result' = get_previous_view_definition_state(graph, App, T1, engine)
    /\ UNCHANGED <<graph, stateVars, detectVars>>

NoApplied ==
    [app_label |-> "", operation |-> Op("none", <<>>, None, <<>>, "none"),
     outcome |-> "none"]

StateIdle ==
    /\ is_view_migration = TRUE
    /\ state = <<>>
    /\ prev_state = <<>>
    /\ applied = NoApplied

\* a schema editor as the host creates it for a migration, on a backend
\* with the given features
SchemaEditor(supports_comments, supports_comments_inline) ==
    [add_field |-> "add_field", remove_field |-> "remove_field",
     alter_field |-> "_alter_field",
     supports_comments |-> supports_comments,
     supports_comments_inline |-> supports_comments_inline]

NoCall ==
    [operation |-> "none", name |-> "", field |-> [type |-> "none"],
     old_field |-> [type |-> "none"], editor |-> SchemaEditor(TRUE, FALSE),
     columns |-> <<>>, outcome |-> "none"]

EditorIdle ==
    /\ schema_editor = SchemaEditor(TRUE, FALSE)
    /\ database = [columns |-> <<>>, last |-> NoCall]

IdleFieldKeys ==
    [old_unmanaged_keys |-> {}, new_unmanaged_keys |-> {},
     old_model_keys |-> {}, new_model_keys |-> {},
     kept_model_keys |-> {}, kept_unmanaged_keys |-> {},
     old_field_keys |-> {}, new_field_keys |-> {},
     renamed_models |-> <<>>, renamed_fields |-> <<>>]

PassIdle ==
    /\ from_state = <<>>
    /\ apps = {}
    /\ old_models = {}
    /\ new_models = {}
    /\ pc = "Idle"
    /\ phases = <<>>
    /\ field_keys = IdleFieldKeys
    /\ generated_operations = <<>>
    /\ migrations = <<>>
    /\ recorded = 0
    /\ reduction = [called |-> FALSE]

DetectIdle == PassIdle /\ EditorIdle

WalkInit ==
    /\ graph = EmptyGraph
    /\ walk_args = <<>>
    /\ walk_result = NoWalk
    /\ StateIdle
    /\ DetectIdle

WalkNext ==
    \/ AddMigration(MaxNodes)
    \/ AddOtherMigration(MaxNodes)
    \/ AddOperation(WalkOps, MaxTotalOps)
    \/ Walk

SpecWalk == WalkInit /\ [][WalkNext]_vars

----------------------------------------------------------------------------
(* Properties of the graph walker (checked under SpecWalk) *)

Range(f) == {f[i] : i \in DOMAIN f}

KeyOf(op) ==
    <<op.table_name,
      IF op.view_engine = None \/ op.view_engine = <<>> THEN E1 ELSE op.view_engine>>

\* the view-forward operations a migration records, in the order they are
\* applied to the database: its own ViewRunPython operations and those on the
\* database side of its SeparateDatabaseAndState wrappers
RECURSIVE RecordedViewOps(_)
RecordedViewOps(ops) ==
    IF ops = <<>> THEN <<>>
    ELSE LET op == Head(ops)
             mine == IF op.kind = "ViewRunPython" THEN <<op>>
                     ELSE IF op.kind = "SeparateDatabaseAndState"
                     THEN SelectSeq(op.database_operations, IsViewRunPython)
                     ELSE <<>>
         IN  mine \o RecordedViewOps(Tail(ops))

MatchingIn(ops, key) ==
    SelectSeq(RecordedViewOps(ops), LAMBDA o : KeyOf(o) = key)

\* the keys of a set, in descending order
RECURSIVE Descending(_)
Descending(S) ==
    IF S = {} THEN <<>> ELSE <<MaxKey(S)>> \o Descending(S \ {MaxKey(S)})

\* the order in which the host applies the history up to a node: depth first,
\* every migration after the migrations it depends on
RECURSIVE VisitAll(_, _, _)
VisitAll(g, todo, done) ==
    IF todo = <<>> THEN done
    ELSE LET n == Head(todo)
         IN  IF n \in Range(done) THEN VisitAll(g, Tail(todo), done)
             ELSE VisitAll(g, Tail(todo),
                           Append(VisitAll(g, Descending(g.parents[n]), done), n))

ForwardsPlan(g, leaf) == VisitAll(g, <<leaf>>, <<>>)

\* the matching view operations of the application in application order
RECURSIVE MatchingAlong(_, _, _, _)
MatchingAlong(g, plan, app_label, key) ==
    IF plan = <<>> THEN <<>>
    ELSE (IF Head(plan)[1] = app_label
          THEN MatchingIn(g.nodes[Head(plan)], key) ELSE <<>>)
         \o MatchingAlong(g, Tail(plan), app_label, key)

Walked == walk_result.outcome # "none"
WalkKey == <<walk_args[2], walk_args[3]>>

\* a linear history of the one application: each migration depends on the
\* one before it and on nothing else
Linear(g) ==
    /\ NodesOf(g, OtherApp) = {}
    /\ \A k \in DOMAIN g.nodes :
          g.parents[k] = IF k[2] = 1 THEN {} ELSE {<<App, k[2] - 1>>}

\* all matching view operations of the application's history
AllMatching(g, key) ==
    {<<k, i>> \in NodesOf(g, App) \X (1..MaxTotalOps + 1) :
        i <= Len(MatchingIn(g.nodes[k], key))}

MatchAt(g, key, pos) == MatchingIn(g.nodes[pos[1]], key)[pos[2]]

\* a wrapper with more than one view operation on its database side
Ambiguous(op) ==
    /\ op.kind = "SeparateDatabaseAndState"
    /\ Len(SelectSeq(op.database_operations, IsViewRunPython)) > 1

NoAmbiguousWrapper(g) ==
    \A k \in NodesOf(g, App) : \A i \in 1..Len(g.nodes[k]) : ~Ambiguous(g.nodes[k][i])

\* C1 as stated: over a linear history of the one application the walk
\* returns the stripped definition of the only view operation recorded for
\* (table, engine), and the empty text when none is recorded.
C1_AsStated ==
    (Walked /\ Linear(graph)) =>
        LET found == AllMatching(graph, WalkKey)
        IN  /\ Cardinality(found) = 1 =>
                 \A pos \in found :
                    walk_result = Returned(Strip(MatchAt(graph, WalkKey, pos).view_definition))
            /\ found = {} => walk_result = Returned(<<>>)

\* C1 amended: the same, for histories in which no SeparateDatabaseAndState
\* holds more than one view operation on its database side.
C1_LinearHistory ==
    (Walked /\ Linear(graph) /\ NoAmbiguousWrapper(graph)) =>
        LET found == AllMatching(graph, WalkKey)
        IN  /\ Cardinality(found) = 1 =>
                 \A pos \in found :
                    walk_result = Returned(Strip(MatchAt(graph, WalkKey, pos).view_definition))
            /\ found = {} => walk_result = Returned(<<>>)

\* a linear history of three migrations whose first one records the only
\* matching operation, with whitespace around its definition, was walked
C1_Witness ==
    /\ Walked /\ Linear(graph) /\ NoAmbiguousWrapper(graph)
    /\ Cardinality(NodesOf(graph, App)) = 3
    /\ AllMatching(graph, WalkKey) = {<<<<App, 1>>, 1>>}
    /\ MatchAt(graph, WalkKey, <<<<App, 1>>, 1>>).view_definition = <<" ", "y", " ">>
    /\ walk_result = Returned(<<"y">>)

\* C2 as stated: when the history of the application (one leaf, no ambiguous
\* wrapper) records several view operations for (table, engine), the walk
\* returns the definition of the one applied last.
C2_MostRecent ==
    (/\ Walked
     /\ NoAmbiguousWrapper(graph)
     /\ Cardinality(leaf_nodes(graph, App)) = 1) =>
        LET leaf == MinKey(leaf_nodes(graph, App))
            in_order == MatchingAlong(graph, ForwardsPlan(graph, leaf), App, WalkKey)
        IN  in_order # <<>> =>
               walk_result = Returned(Strip(in_order[Len(in_order)].view_definition))

\* the first operation of the leaf migration is a SeparateDatabaseAndState
WrapperInspected ==
    /\ Walked
    /\ leaf_nodes(graph, App) # {}
    /\ LET leaf == MinKey(leaf_nodes(graph, App))
       IN  /\ graph.nodes[leaf] # <<>>
           /\ graph.nodes[leaf][1].kind = "SeparateDatabaseAndState"

WalkLeaf == MinKey(leaf_nodes(graph, App))

InspectedViewOps ==
    SelectSeq(graph.nodes[WalkLeaf][1].database_operations, IsViewRunPython)

\* the walk over the same history without the leaf's first operation
WalkAfterFirst ==
    get_previous_view_definition_state(
        [graph EXCEPT !.nodes[WalkLeaf] = Tail(@)], App, walk_args[2], walk_args[3])

SameKeyTwice(ops) ==
    \E i, j \in 1..Len(ops) : i < j /\ KeyOf(ops[i]) = KeyOf(ops[j])

\* C3 as stated: the walk fails exactly when the wrapper's database side
\* holds two view operations for the same (table, engine); with exactly one
\* view operation matching (T, E) it returns that definition; with none it
\* goes on.
C3_AsStated ==
    WrapperInspected =>
        LET hits == SelectSeq(InspectedViewOps, LAMBDA o : KeyOf(o) = WalkKey)
        IN  IF SameKeyTwice(InspectedViewOps)
            THEN walk_result = Raised("AssertionError")
            ELSE IF Len(hits) = 1
            THEN walk_result = Returned(Strip(hits[1].view_definition))
            ELSE walk_result = WalkAfterFirst

\* C3 amended: the walk fails exactly when the database side holds more than
\* one view operation, whatever their keys; with exactly one view operation,
\* matching (T, E), it returns that definition; otherwise it goes on to the
\* next operation or parent.  The state side is never looked at.  The walk
\* fails only because of such a wrapper.
C3_WrapperRule ==
    /\ WrapperInspected =>
          IF Len(InspectedViewOps) > 1
          THEN walk_result = Raised("AssertionError")
          ELSE IF Len(InspectedViewOps) = 1 /\ KeyOf(InspectedViewOps[1]) = WalkKey
          THEN walk_result = Returned(Strip(InspectedViewOps[1].view_definition))
          ELSE walk_result = WalkAfterFirst
    /\ (Walked /\ walk_result.outcome = "AssertionError") => ~NoAmbiguousWrapper(graph)

\* a wrapper with one non-matching view operation on its database side and a
\* matching one on its state side was passed over, and the walk went on to
\* return the definition recorded by the parent migration
C3_Witness ==
    /\ WrapperInspected
    /\ Len(InspectedViewOps) = 1 /\ KeyOf(InspectedViewOps[1]) # WalkKey
    /\ graph.nodes[WalkLeaf][1].state_operations # <<>>
    /\ WalkLeaf = <<App, 2>>
    /\ walk_result = Returned(<<"x">>)

----------------------------------------------------------------------------
(* operations.py: the view state entries *)

\* f"{value}" of a text or of None
Format(v) == v

\* get_table_engine_name_hash: f"{table_name}_{engine}".lower()
get_table_engine_name_hash(table_name, engine) ==
    Lower(Format(table_name) \o <<"_">> \o Format(engine))

\* DBViewModelState(app_label, name, list(), dict(), tuple(), list(),
\* view_engine, view_definition, base_class, table_name), built while the
\* view-migration context is active: no fields, no options (so managed)
DBViewModelState(app_label, name, view_engine, view_definition, base_class, table_name) ==
    [class |-> "DBViewModelState", app_label |-> app_label, name |-> name,
     fields |-> <<>>, managed |-> TRUE,
     view_engine |-> view_engine, view_definition |-> view_definition,
     base_class |-> base_class, table_name |-> table_name]

\* ProjectState.add_model: self.models[app_label, name_lower] = model_state
add_model_keep(models, model_state) ==
    LET model_key == <<model_state.app_label, Lower(model_state.name)>>
    IN  IF model_key \in DOMAIN models THEN models
        ELSE [k \in DOMAIN models \cup {model_key} |->
                 IF k = model_key THEN model_state ELSE models[k]]
add_model(models, model_state) ==
    LET model_key == <<model_state.app_label, Lower(model_state.name)>>
    IN  [k \in DOMAIN models \cup {model_key} |->
            IF k = model_key THEN model_state ELSE models[k]]

\* ProjectState.remove_model: del self.models[app_label, model_name]
remove_model(models, app_label, model_name) ==
    [k \in DOMAIN models \ {<<app_label, model_name>>} |-> models[k]]

Applied(models, outcome) == [models |-> models, outcome |-> outcome]

\* ViewRunPython.state_forwards
ViewRunPython_state_forwards_any_context(operation, app_label, models, context) ==
    IF operation.base \notin {"materialized", "view"}
    THEN Applied(models, "NotImplementedError")
    ELSE Applied(
            add_model(models,
                DBViewModelState(
                    app_label,
                    get_table_engine_name_hash(operation.table_name, operation.view_engine),
                    operation.view_engine,
                    operation.view_definition,
                    IF operation.base = "materialized"
                    THEN "DBMaterializedView" ELSE "DBView",
                    operation.table_name)),
            "ok")
ViewRunPython_state_forwards(operation, app_label, models, context) ==
    IF ~context THEN Applied(models, "ok")
    ELSE IF operation.base \notin {"materialized", "view"}
    THEN Applied(models, "NotImplementedError")
    ELSE Applied(
            add_model(models,
                DBViewModelState(
                    app_label,
                    get_table_engine_name_hash(operation.table_name, operation.view_engine),
                    operation.view_engine,
                    operation.view_definition,
                    IF operation.base = "materialized"
                    THEN "DBMaterializedView" ELSE "DBView",
                    operation.table_name)),
            "ok")

\* ViewDropRunPython.state_forwards
ViewDropRunPython_state_forwards(operation, app_label, models, context) ==
    IF ~context THEN Applied(models, "ok")
    ELSE LET name == get_table_engine_name_hash(operation.table_name,
                                                operation.view_engine)
         IN  IF <<app_label, name>> \notin DOMAIN models
             THEN Applied(models, "KeyError")
             ELSE Applied(remove_model(models, app_label, name), "ok")

----------------------------------------------------------------------------
(* Operations applied to a project state, one after the other *)

StateTables == {<<"t">>, <<"T">>}
StateEngines == {E1, None}
StateCodes ==
    {<<<<"x">>, "view">>, <<<<"y">>, "view">>, <<<<"x">>, "materialized">>}

\* the last one carries a code that is neither forward migration class
StateCreates ==
    {ViewRunPython(t, e, c[1], c[2]) :
        t \in StateTables, e \in StateEngines, c \in StateCodes}
    \cup {ViewRunPython(<<"t">>, E1, <<"x">>, "other")}

StateDrops ==
    {ViewDropRunPython(t, e, <<"x">>, "view") : t \in StateTables, e \in StateEngines}

ApplyForward(app_label, operation, result) ==
    /\ prev_state' = state
    /\ state' = result.models
    /\ applied' = [app_label |-> app_label, operation |-> operation,
                   outcome |-> result.outcome]
    /\ UNCHANGED <<is_view_migration, walkVars, detectVars>>

\* ViewRunPython(...).state_forwards(app_label, state)
ApplyViewRunPython ==
    \E app_label \in Apps, operation \in StateCreates :
        ApplyForward(app_label, operation,
            ViewRunPython_state_forwards(operation, app_label, state, is_view_migration))

\* ViewDropRunPython(...).state_forwards(app_label, state)
ApplyViewDropRunPython ==
    \E app_label \in Apps, operation \in StateDrops :
        ApplyForward(app_label, operation,
            ViewDropRunPython_state_forwards(operation, app_label, state, is_view_migration))

StateInit ==
    /\ graph = EmptyGraph
    /\ walk_args = <<>>
    /\ walk_result = NoWalk
    /\ is_view_migration \in BOOLEAN
    /\ state = <<>>
    /\ prev_state = <<>>
    /\ applied = NoApplied
    /\ DetectIdle

StateNext ==
    \/ ApplyViewRunPython
    \/ ApplyViewDropRunPython

SpecState == StateInit /\ [][StateNext]_vars

----------------------------------------------------------------------------
(* Properties of the state operations (checked under SpecState) *)

AppliedKey ==
    <<applied.app_label,
      Lower(applied.operation.table_name \o <<"_">> \o applied.operation.view_engine)>>

CreateApplied ==
    /\ applied.operation.kind = "ViewRunPython"
    /\ applied.operation.base \in {"view", "materialized"}

DropApplied == applied.operation.kind = "ViewDropRunPython"

\* the entry a Create/Replace-Forward operation stands for
CarriesOperation(entry) ==
    /\ entry.table_name = applied.operation.table_name
    /\ entry.view_engine = applied.operation.view_engine
    /\ entry.view_definition = applied.operation.view_definition
    /\ entry.base_class = IF applied.operation.base = "view"
                          THEN "DBView" ELSE "DBMaterializedView"

OthersUnchanged ==
    /\ DOMAIN state \ {AppliedKey} = DOMAIN prev_state \ {AppliedKey}
    /\ \A k \in DOMAIN state \ {AppliedKey} : state[k] = prev_state[k]

\* C8 as stated: a Create/Replace-Forward adds exactly one entry, under the
\* hash key and carrying the operation's values; a Drop removes exactly one,
\* the one under that key; nothing else changes.
C8_AsStated ==
    /\ CreateApplied =>
          /\ Cardinality(DOMAIN state) = Cardinality(DOMAIN prev_state) + 1
          /\ AppliedKey \in DOMAIN state /\ CarriesOperation(state[AppliedKey])
          /\ OthersUnchanged
    /\ DropApplied =>
          /\ Cardinality(DOMAIN state) = Cardinality(DOMAIN prev_state) - 1
          /\ AppliedKey \notin DOMAIN state
          /\ OthersUnchanged

\* C8 amended: inside the view-migration context a Create/Replace-Forward
\* leaves exactly one entry under its hash key, carrying the operation's
\* values: it adds the entry when the key was free and replaces the entry
\* when it was taken; a Drop removes the entry under its key when there is
\* one and fails with KeyError, changing nothing, when there is none; no other
\* entry changes.  Outside the context neither changes the state.
C8_StateTransition ==
    /\ (CreateApplied /\ is_view_migration) =>
          /\ applied.outcome = "ok"
          /\ AppliedKey \in DOMAIN state /\ CarriesOperation(state[AppliedKey])
          /\ Cardinality(DOMAIN state) =
                Cardinality(DOMAIN prev_state)
                    + (IF AppliedKey \in DOMAIN prev_state THEN 0 ELSE 1)
          /\ OthersUnchanged
    /\ (DropApplied /\ is_view_migration /\ AppliedKey \in DOMAIN prev_state) =>
          /\ applied.outcome = "ok"
          /\ AppliedKey \notin DOMAIN state
          /\ Cardinality(DOMAIN state) = Cardinality(DOMAIN prev_state) - 1
          /\ OthersUnchanged
    /\ (DropApplied /\ is_view_migration /\ AppliedKey \notin DOMAIN prev_state) =>
          /\ applied.outcome = "KeyError"
          /\ state = prev_state
    /\ ((CreateApplied \/ DropApplied) /\ ~is_view_migration) =>
          /\ applied.outcome = "ok"
          /\ state = prev_state

\* a materialized view's entry was dropped from a state that held entries of
\* both applications, one of them under another key of the same application
C8_Witness ==
    /\ DropApplied /\ is_view_migration /\ applied.outcome = "ok"
    /\ AppliedKey \in DOMAIN prev_state
    /\ prev_state[AppliedKey].base_class = "DBMaterializedView"
    /\ Cardinality(DOMAIN state) = 2
    /\ \E k \in DOMAIN state : k[1] = applied.app_label
    /\ \E k \in DOMAIN state : k[1] # applied.app_label

SameView(e1, e2) ==
    e1.table_name = e2.table_name /\ e1.view_engine = e2.view_engine

\* C9 as stated: no two entries of a state share (table_name, engine), and a
\* Create/Replace-Forward whose key is taken fails and changes nothing.
C9_AsStated ==
    /\ \A k1, k2 \in DOMAIN state :
          SameView(state[k1], state[k2]) => k1 = k2
    /\ (CreateApplied /\ is_view_migration /\ AppliedKey \in DOMAIN prev_state) =>
          /\ applied.outcome # "ok"
          /\ state = prev_state

\* C9 amended: no two entries of one application share (table_name, engine),
\* and a Create/Replace-Forward whose key is taken succeeds and replaces the
\* entry under that key with its own, the number of entries staying the same.
C9_ReplacesEntry ==
    /\ \A k1, k2 \in DOMAIN state :
          (k1[1] = k2[1] /\ SameView(state[k1], state[k2])) => k1 = k2
    /\ (CreateApplied /\ is_view_migration /\ AppliedKey \in DOMAIN prev_state) =>
          /\ applied.outcome = "ok"
          /\ CarriesOperation(state[AppliedKey])
          /\ DOMAIN state = DOMAIN prev_state

\* a second Create/Replace-Forward for the same (table_name, engine) with
\* another definition was applied to a state that held the first one's entry
C9_Witness ==
    /\ CreateApplied /\ is_view_migration
    /\ AppliedKey \in DOMAIN prev_state
    /\ SameView(prev_state[AppliedKey], state[AppliedKey])
    /\ prev_state[AppliedKey].view_definition # state[AppliedKey].view_definition

----------------------------------------------------------------------------
(* autodetector.py: view definitions *)

\* sql_normalize: sqlparse.format(s, compact, keyword_case="upper",
\* identifier_case="lower", reindent, strip_comments).strip(): keywords in
\* upper case, identifiers in lower case, runs of whitespace collapsed, the
\* ends stripped; a statement terminator stays
NormalizeChar(c) ==
    CASE c = "k" -> "K"
      [] c = "X" -> "x"
      [] OTHER -> c

RECURSIVE CollapseWhitespace(_)
CollapseWhitespace(s) ==
    IF Len(s) < 2 THEN s
    ELSE IF s[1] \in Whitespace /\ s[2] \in Whitespace
         THEN CollapseWhitespace(Tail(s))
         ELSE <<s[1]>> \o CollapseWhitespace(Tail(s))

sql_normalize(s) ==
    Strip(CollapseWhitespace([i \in 1..Len(s) |-> NormalizeChar(s[i])]))

\* ViewMigrationAutoDetector.is_same_views
is_same_views(current, new) == sql_normalize(current) = sql_normalize(new)

\* ViewMigrationAutoDetector.get_cleaned_view_definition_value
get_cleaned_view_definition_value(view_definition) == Strip(view_definition)

\* a model's raw view_definition (after calling it when it is callable):
\* a text, or a dict engine -> text
TextDefinition(text) == [form |-> "str", text |-> text, dict |-> <<>>]
DictDefinition(dict) == [form |-> "dict", text |-> <<>>, dict |-> dict]

\* ViewMigrationAutoDetector.get_view_definition_from_model
get_view_definition_from_model(view_model) ==
    LET raw_view_definition == view_model.view_definition
    IN  IF raw_view_definition.form = "dict"
        THEN [engine \in DOMAIN raw_view_definition.dict |->
                get_cleaned_view_definition_value(raw_view_definition.dict[engine])]
        ELSE [engine \in {DefaultEngine} |->
                get_cleaned_view_definition_value(raw_view_definition.text)]

\* a base of a model: a class, or a string naming one ("app_label.name", or
\* a name without a dot)
ClassBase == [string |-> FALSE, dotted |-> FALSE, app_label |-> "", name |-> <<>>]
StringBase(app_label, name) ==
    [string |-> TRUE, dotted |-> TRUE, app_label |-> app_label, name |-> name]
UndottedBase(name) ==
    [string |-> TRUE, dotted |-> FALSE, app_label |-> "", name |-> name]

\* generate_views_operations, lines 219-225: depend on all string bases
BaseDependencies(bases) ==
    LET named == SelectSeq(bases, LAMBDA base : base.string /\ base.dotted)
    IN  [i \in 1..Len(named) |-> <<named[i].app_label, named[i].name, "None", "True">>]

\* a live model class: _meta.db_table, its kind, its bases, its definition
ViewModel(model_name, db_table, base, bases, view_definition) ==
    [app_label |-> App, model_name |-> model_name, db_table |-> db_table,
     base |-> base, bases |-> bases, view_definition |-> view_definition]

\* the order in which dicts of the pass are iterated
RECURSIVE SetToSeq(_)
SetToSeq(S) ==
    IF S = {} THEN <<>>
    ELSE LET x == CHOOSE x \in S : TRUE IN <<x>> \o SetToSeq(S \ {x})

\* self.add_operation(app_label, operation)
add_operation(generated, app_label, operation) ==
    IF app_label \in DOMAIN generated
    THEN [generated EXCEPT ![app_label] = Append(@, operation)]
    ELSE [k \in DOMAIN generated \cup {app_label} |->
            IF k = app_label THEN <<operation>> ELSE generated[k]]

Generated(generated, outcome) == [generated |-> generated, outcome |-> outcome]

\* the body of the inner loop of generate_views_operations (lines 213-242)
ForwardDefinitionUnstripped(latest_view_definition) == latest_view_definition
ForwardDefinition(latest_view_definition) == StripChars(latest_view_definition, {";"})
BackwardDefinitionEmpty(current_view_definition) == <<>>
BackwardDefinition(current_view_definition) == StripChars(current_view_definition, {";"})

RECURSIVE GenerateForEngines(_, _, _, _, _)
GenerateForEngines(g, view_model, definitions, engines, generated) ==
    IF engines = <<>> THEN Generated(generated, "ok")
    ELSE LET engine == Head(engines)
             latest_view_definition == definitions[engine]
             current == get_previous_view_definition_state(
                            g, view_model.app_label, view_model.db_table, engine)
         IN  IF current.outcome # "return" THEN Generated(generated, current.outcome)
             ELSE GenerateForEngines(g, view_model, definitions, Tail(engines),
                    IF ~is_same_views(current.value, latest_view_definition)
                    THEN add_operation(generated, view_model.app_label,
                            RunPython("ViewRunPython", view_model.db_table, engine,
                                ForwardDefinition(latest_view_definition),
                                view_model.base,
                                BackwardDefinition(current.value),
                                FALSE,
                                BaseDependencies(view_model.bases)))
                    ELSE generated)

\* ViewMigrationAutoDetector.get_current_view_models
get_current_view_models(all_models, registry) ==
    {model \in all_models : model.db_table \in registry}

\* ViewMigrationAutoDetector.generate_views_operations
RECURSIVE GenerateForModels(_, _, _)
GenerateForModels(g, view_models, generated) ==
    IF view_models = <<>> THEN Generated(generated, "ok")
    ELSE LET view_model == Head(view_models)
             new_view_definition == get_view_definition_from_model(view_model)
             done == GenerateForEngines(g, view_model, new_view_definition,
                        SetToSeq(DOMAIN new_view_definition), generated)
         IN  IF done.outcome # "ok" THEN done
             ELSE GenerateForModels(g, Tail(view_models), done.generated)

generate_views_operations(g, all_models, registry, generated) ==
    GenerateForModels(g, SetToSeq(get_current_view_models(all_models, registry)),
                      generated)

\* ViewMigrationAutoDetector.get_previous_view_models_state
get_previous_view_models_state(models) ==
    {key \in DOMAIN models : models[key].class = "DBViewModelState"}

DropBase(base_class) == IF base_class = "DBMaterializedView" THEN "materialized" ELSE "view"

\* line 152: the entry's view is no longer declared
IsRemovedAlways(model_state, registry) == TRUE
IsRemoved(model_state, registry) == model_state.table_name \notin registry

\* ViewMigrationAutoDetector.delete_old_views
RECURSIVE DeleteOldViews(_, _, _, _)
DeleteOldViews(models, keys, registry, generated) ==
    IF keys = <<>> THEN generated
    ELSE LET app_label == Head(keys)[1]
             model_state == models[Head(keys)]
         IN  DeleteOldViews(models, Tail(keys), registry,
                IF IsRemoved(model_state, registry)
                THEN add_operation(generated, app_label,
                        RunPython("ViewDropRunPython", model_state.table_name,
                            model_state.view_engine, <<>>,
                            DropBase(model_state.base_class),
                            model_state.view_definition, FALSE, <<>>))
                ELSE generated)

delete_old_views(models, registry, generated) ==
    DeleteOldViews(models, SetToSeq(get_previous_view_models_state(models)),
                   registry, generated)

----------------------------------------------------------------------------
(* The project states the pass compares *)

\* a field of a model state, as deep_deconstruct sees it
Field(type, db_comment, null, default) ==
    [type |-> type, db_comment |-> db_comment, null |-> null,
     default |-> default, db_default |-> "NOT_PROVIDED"]

many_to_many(field) == field.type = "ManyToManyField"
has_default(field) == field.default # "NOT_PROVIDED"
deep_deconstruct(field) == field

\* the model a relational field of the pass points to
RemoteModel == <<OtherApp, <<"r">>>>

\* ModelState(app_label, name, fields, options): options hold "managed"
ModelState(app_label, name, fields, managed) ==
    [class |-> "ModelState", app_label |-> app_label, name |-> name,
     fields |-> fields, managed |-> managed]

\* Migration.mutate_state: every operation's state_forwards, in order; a
\* SeparateDatabaseAndState applies its state_operations only
RECURSIVE MutateState(_, _, _)
MutateState(ops, app_label, models) ==
    IF ops = <<>> THEN Applied(models, "ok")
    ELSE LET operation == Head(ops)
             one ==
                CASE operation.kind = "ViewRunPython" ->
                        ViewRunPython_state_forwards(operation, app_label, models, TRUE)
                  [] operation.kind = "ViewDropRunPython" ->
                        ViewDropRunPython_state_forwards(operation, app_label, models, TRUE)
                  [] operation.kind = "SeparateDatabaseAndState" ->
                        MutateState(operation.state_operations, app_label, models)
                  [] OTHER -> Applied(models, "ok")
         IN  IF one.outcome # "ok" THEN one
             ELSE MutateState(Tail(ops), app_label, one.models)

\* the keys of a set, in ascending order
RECURSIVE Ascending(_)
Ascending(S) ==
    IF S = {} THEN <<>> ELSE <<MinKey(S)>> \o Ascending(S \ {MinKey(S)})

AllLeaves(g) ==
    {n \in DOMAIN g.nodes : \A m \in DOMAIN g.nodes : n \notin g.parents[m]}

\* MigrationLoader.project_state(): the whole history applied in plan order,
\* inside the view-migration context
RECURSIVE MakeState(_, _, _)
MakeState(g, plan, models) ==
    IF plan = <<>> THEN Applied(models, "ok")
    ELSE LET one == MutateState(g.nodes[Head(plan)], Head(plan)[1], models)
         IN  IF one.outcome # "ok" THEN one
             ELSE MakeState(g, Tail(plan), one.models)

project_state(g) == MakeState(g, VisitAll(g, Ascending(AllLeaves(g)), <<>>), <<>>)

RECURSIVE AddModels(_, _)
AddModels(models, model_states) ==
    IF model_states = <<>> THEN models
    ELSE AddModels(add_model(models, Head(model_states)), Tail(model_states))

\* ProjectState.from_apps(apps): a model state per live model; a view model
\* declares managed = False
to_state_models(view_models, plain_models) ==
    AddModels(<<>>,
        SetToSeq({ModelState(v.app_label, v.model_name, <<>>, FALSE) : v \in view_models})
        \o SetToSeq(plain_models))

\* apps.all_models: the view models and the plain models, by db_table
all_models(view_models, plain_models) ==
    view_models \cup
    {ViewModel(p.name, p.name, "model", <<ClassBase>>, TextDefinition(<<>>)) :
        p \in plain_models}

\* DBViewsRegistry: the db_table of every declared view model
DBViewsRegistry(view_models) == {v.db_table : v \in view_models}

----------------------------------------------------------------------------
(* autodetector.py: field comments *)

\* _detect_changes_preparation_django_version_4_and_above: the model key sets
\* (the managed and proxy key sets stay empty: lines 98-122)
UnmanagedKeysAll(models) == DOMAIN models
UnmanagedKeys(models) == {key \in DOMAIN models : ~models[key].managed}
ManagedKeys(models) == {}

Preparation_keys(from_models, to_models) ==
    [old_unmanaged_keys |-> UnmanagedKeys(from_models),
     new_unmanaged_keys |-> UnmanagedKeys(to_models),
     old_model_keys |-> ManagedKeys(from_models),
     new_model_keys |-> ManagedKeys(to_models),
     kept_model_keys |-> {}, kept_unmanaged_keys |-> {},
     old_field_keys |-> {}, new_field_keys |-> {},
     renamed_models |-> <<>>, renamed_fields |-> <<>>]

Get(dict, key, default) == IF key \in DOMAIN dict THEN dict[key] ELSE default

\* _prepare_field_lists
prepare_field_lists(keys, from_models, to_models) ==
    LET kept_unmanaged_keys == keys.old_unmanaged_keys \cap keys.new_unmanaged_keys
    IN  [keys EXCEPT
            !.kept_model_keys = keys.old_model_keys \cap keys.new_model_keys,
            !.kept_unmanaged_keys = kept_unmanaged_keys,
            !.old_field_keys =
                UNION {{<<k[1], k[2], field_name>> :
                          field_name \in DOMAIN from_models[
                              <<k[1], Get(keys.renamed_models, k, k[2])>>].fields} :
                       k \in kept_unmanaged_keys},
            !.new_field_keys =
                UNION {{<<k[1], k[2], field_name>> :
                          field_name \in DOMAIN to_models[k].fields} :
                       k \in kept_unmanaged_keys}]

\* sorted(keys) of field keys of one model: by field name
FieldNames == <<"f", "g">>
Sorted(keys) ==
    LET RECURSIVE Pick(_)
        Pick(i) == IF i > Len(FieldNames) THEN <<>>
                   ELSE SetToSeq({k \in keys : k[3] = FieldNames[i]}) \o Pick(i + 1)
    IN  Pick(1)

Put(dict, key, value) ==
    [k \in DOMAIN dict \cup {key} |-> IF k = key THEN value ELSE dict[k]]

\* MigrationAutodetector.create_renamed_fields: an added field whose
\* deconstruction equals a removed field's of the same model is recorded as a
\* rename when the questioner agrees; self.old_field_keys itself stays as it
\* is (the method works on a copy)
RECURSIVE RenameAgainst(_, _, _, _, _, _)
RenameAgainst(keys, from_models, to_models, key, removed, ask_rename) ==
    IF removed = <<>> THEN keys.renamed_fields
    ELSE LET rem == Head(removed)
             field == to_models[<<key[1], key[2]>>].fields[key[3]]
             old_field == from_models[
                 <<key[1], Get(keys.renamed_models, <<key[1], key[2]>>, key[2])>>
                 ].fields[rem[3]]
         IN  IF /\ rem[1] = key[1] /\ rem[2] = key[2]
                /\ deep_deconstruct(old_field) = deep_deconstruct(field)
                /\ ask_rename
             THEN Put(keys.renamed_fields, key, rem[3])
             ELSE RenameAgainst(keys, from_models, to_models, key, Tail(removed),
                                ask_rename)

RECURSIVE CreateRenamedFields(_, _, _, _, _, _)
CreateRenamedFields(keys, from_models, to_models, added, old_field_keys, ask_rename) ==
    IF added = <<>> THEN keys
    ELSE LET renamed == RenameAgainst(keys, from_models, to_models, Head(added),
                            Sorted(old_field_keys \ keys.new_field_keys), ask_rename)
             found == Head(added) \in DOMAIN renamed
         IN  CreateRenamedFields([keys EXCEPT !.renamed_fields = renamed],
                from_models, to_models, Tail(added),
                IF found
                THEN (old_field_keys \ {<<Head(added)[1], Head(added)[2],
                                          renamed[Head(added)]>>}) \cup {Head(added)}
                ELSE old_field_keys,
                ask_rename)

create_renamed_fields(keys, from_models, to_models, ask_rename) ==
    CreateRenamedFields(keys, from_models, to_models,
        Sorted(keys.new_field_keys \ keys.old_field_keys),
        keys.old_field_keys, ask_rename)

\* the field-comment operations
FieldOperation(kind, model_name, name, field, preserve_default, dependencies) ==
    [kind |-> kind, model_name |-> model_name, name |-> name, field |-> field,
     preserve_default |-> preserve_default, dependencies |-> dependencies]

NoField == Field("none", <<>>, TRUE, "NOT_PROVIDED")

\* ViewMigrationAutoDetector._generate_removed_field
generate_removed_field(generated, app_label, model_name, field_name) ==
    add_operation(generated, app_label,
        FieldOperation("RemoveFieldComment", model_name, field_name, NoField, TRUE,
            <<<<app_label, model_name, field_name, "order_wrt_unset">>,
              <<app_label, model_name, field_name, "foo_together_change">>>>))

\* ViewMigrationAutoDetector._generate_added_field
generate_added_field(generated, to_models, app_label, model_name, field_name) ==
    LET field == to_models[<<app_label, model_name>>].fields[field_name]
    IN  add_operation(generated, app_label,
            FieldOperation("AddFieldComment", model_name, field_name, field, TRUE,
                <<<<app_label, model_name, field_name, "False">>>>
                \o (IF many_to_many(field)
                    THEN <<<<RemoteModel[1], RemoteModel[2], "None", "True">>>>
                    ELSE <<>>)))

\* MigrationAutodetector.generate_removed_fields / generate_added_fields
RECURSIVE GenerateRemoved(_, _)
GenerateRemoved(generated, todo) ==
    IF todo = <<>> THEN generated
    ELSE GenerateRemoved(
            generate_removed_field(generated, Head(todo)[1], Head(todo)[2], Head(todo)[3]),
            Tail(todo))

generate_removed_fields(keys, generated) ==
    GenerateRemoved(generated, Sorted(keys.old_field_keys \ keys.new_field_keys))

RECURSIVE GenerateAdded(_, _, _)
GenerateAdded(generated, to_models, todo) ==
    IF todo = <<>> THEN generated
    ELSE GenerateAdded(
            generate_added_field(generated, to_models,
                                 Head(todo)[1], Head(todo)[2], Head(todo)[3]),
            to_models, Tail(todo))

generate_added_fields(keys, to_models, generated) ==
    GenerateAdded(generated, to_models, Sorted(keys.new_field_keys \ keys.old_field_keys))

\* the body of the loop of generate_altered_fields (lines 446-500)
FieldChangedAlways(old_field, new_field) == TRUE
FieldChanged(old_field, new_field) ==
    deep_deconstruct(old_field) # deep_deconstruct(new_field)

AlteredField(generated, keys, from_models, to_models, key, new_default) ==
    LET app_label == key[1]
        model_name == key[2]
        field_name == key[3]
        old_model_name == Get(keys.renamed_models, <<app_label, model_name>>, model_name)
        old_field_name == Get(keys.renamed_fields, key, field_name)
        old_field == from_models[<<app_label, old_model_name>>].fields[old_field_name]
        new_field == to_models[<<app_label, model_name>>].fields[field_name]
        both_m2m == many_to_many(old_field) /\ many_to_many(new_field)
        neither_m2m == ~many_to_many(old_field) /\ ~many_to_many(new_field)
        asks == /\ old_field.null
                /\ ~new_field.null
                /\ ~has_default(new_field)
                /\ new_field.db_default = "NOT_PROVIDED"
                /\ ~many_to_many(new_field)
        provided == asks /\ new_default # "NOT_PROVIDED"
    IN  IF ~(FieldChanged(old_field, new_field) /\ old_field_name = field_name)
        THEN generated
        ELSE IF both_m2m \/ neither_m2m
        THEN add_operation(generated, app_label,
                FieldOperation("AlterFieldComment", model_name, field_name,
                    IF provided THEN [new_field EXCEPT !.default = new_default]
                    ELSE new_field,
                    ~provided, <<>>))
        ELSE generate_added_field(
                generate_removed_field(generated, app_label, model_name, field_name),
                to_models, app_label, model_name, field_name)

\* ViewMigrationAutoDetector.generate_altered_fields
RECURSIVE GenerateAltered(_, _, _, _, _, _)
GenerateAltered(generated, keys, from_models, to_models, todo, new_default) ==
    IF todo = <<>> THEN generated
    ELSE GenerateAltered(
            AlteredField(generated, keys, from_models, to_models, Head(todo), new_default),
            keys, from_models, to_models, Tail(todo), new_default)

generate_altered_fields(keys, from_models, to_models, generated, new_default) ==
    GenerateAltered(generated, keys, from_models, to_models,
        Sorted(keys.old_field_keys \cap keys.new_field_keys), new_default)

----------------------------------------------------------------------------
(* The end of the pass: _sort_migrations, _build_migration_list,            *)
(* _optimize_migrations of the host's autodetector                          *)

\* MigrationAutodetector.check_dependency, for the operations of the pass
check_dependency(operation, dependency) ==
    \/ /\ dependency[3] # "None" /\ dependency[4] = "True"
       /\ operation.kind = "AddFieldComment"
       /\ operation.model_name = dependency[2] /\ operation.name = dependency[3]
    \/ /\ dependency[3] # "None" /\ dependency[4] = "False"
       /\ operation.kind = "RemoveFieldComment"
       /\ operation.model_name = dependency[2] /\ operation.name = dependency[3]

\* stable_topological_sort over the dependencies inside the application
stable_topological_sort(ops, app_label) ==
    LET deps(i) == {j \in 1..Len(ops) :
                       \E d \in 1..Len(ops[i].dependencies) :
                           /\ ops[i].dependencies[d][1] = app_label
                           /\ check_dependency(ops[j], ops[i].dependencies[d])}
        RECURSIVE Layers(_, _)
        Layers(todo, done) ==
            LET current == {i \in todo : deps(i) \subseteq done}
            IN  IF todo = {} \/ current = {} THEN <<>>
                ELSE SelectSeq([i \in 1..Len(ops) |-> i], LAMBDA i : i \in current)
                     \o Layers(todo \ current, done \cup current)
        order == Layers(1..Len(ops), {})
    IN  [i \in 1..Len(order) |-> ops[order[i]]]

sort_migrations(generated) ==
    [app_label \in DOMAIN generated |->
        stable_topological_sort(generated[app_label], app_label)]

\* the migration an external dependency resolves to once chopping is allowed
ExternalDependency(g, app_label) ==
    IF leaf_nodes(g, app_label) # {}
    THEN <<app_label, MinKey(leaf_nodes(g, app_label))[2]>>
    ELSE <<app_label, "__first__">>

\* _build_migration_list: no application depends on operations generated
\* for another one, so each application's operations end in one migration
\* and leave generated_operations
build_migration_list(generated, g) ==
    LET apps_with_operations == {a \in DOMAIN generated : generated[a] # <<>>}
    IN  [app_label \in apps_with_operations |->
            <<[name |-> "auto_1",
               operations |-> generated[app_label],
               dependencies |->
                   UNION {{ExternalDependency(g, generated[app_label][i].dependencies[d][1]) :
                              d \in {d \in 1..Len(generated[app_label][i].dependencies) :
                                  generated[app_label][i].dependencies[d][1] # app_label}} :
                          i \in 1..Len(generated[app_label])}]>>]

\* _optimize_migrations: no two operations of one pass reduce to a list
\* (operations on one field are a removal followed by an addition, and a
\* RunPython reduces with nothing), so the optimizer returns them as they are
optimize_migrations(migs) == migs

----------------------------------------------------------------------------
(* One detection pass over a project: its history, its declared view models *)
(* and one plain model before and after its fields were edited.             *)

MaxEdits == 4
MaxRecorded == 1

\* the recorded operations of the histories
Vx == RunPython("ViewRunPython", T1, E1, <<"x">>, "view", <<>>, FALSE, <<>>)
Vy == RunPython("ViewRunPython", T1, E1, <<"y">>, "view", <<"x">>, FALSE, <<>>)
Vf == RunPython("ViewRunPython", T1, E2, <<"x">>, "view", <<>>, FALSE, <<>>)
Vz == RunPython("ViewRunPython", T2, E1, <<"z">>, "materialized", <<>>, FALSE, <<>>)
Dx == RunPython("ViewDropRunPython", T1, E1, <<>>, "view", <<"x">>, FALSE, <<>>)
Wxz == SeparateDatabaseAndState(<<Vx, Vz>>, <<>>)
\* written by hand, with its statement terminator
Vs == RunPython("ViewRunPython", T1, E1, <<"x", ";">>, "view", <<>>, FALSE, <<>>)

DetectOps == {Vx, Vy, Vf, Vz, Dx, Wxz, Vs}

\* the view models that can be declared: one per table
Definitions1 ==
    {TextDefinition(<<"x">>), TextDefinition(<<" ", "X">>),
     TextDefinition(<<"x", ";">>), TextDefinition(<<"y">>),
     TextDefinition(<<" ">>),
     DictDefinition([engine \in {E1, E2} |-> <<"x">>])}

ViewModels ==
    {ViewModel(<<"v">>, T1, "view", <<StringBase(OtherApp, <<"b">>), ClassBase>>, d) :
        d \in Definitions1}
    \cup {ViewModel(<<"w">>, T2, "materialized", <<UndottedBase(<<"b">>)>>,
                    TextDefinition(<<"z">>))}

\* the plain model and its fields
FA == Field("CharField", <<"c">>, TRUE, "NOT_PROVIDED")
FB == Field("CharField", <<"d">>, TRUE, "NOT_PROVIDED")
FC == Field("CharField", <<"c">>, FALSE, "NOT_PROVIDED")
FD == Field("ManyToManyField", <<"c">>, TRUE, "NOT_PROVIDED")
FE == Field("CharField", <<"d">>, FALSE, "v")

PlainName == <<"m">>

FieldsOf(f, g) ==
    [name \in {n \in {"f", "g"} : (IF n = "f" THEN f ELSE g) # NoField} |->
        IF name = "f" THEN f ELSE g]

OldModels ==
    {ModelState(App, PlainName, FieldsOf(f, NoField), managed) :
        f \in {NoField, FA, FD}, managed \in BOOLEAN}

NewModels ==
    {ModelState(App, PlainName, FieldsOf(f, g), managed) :
        f \in {NoField, FA, FB, FC, FD, FE}, g \in {NoField, FA},
        managed \in BOOLEAN}

EditCount ==
    Cardinality(DOMAIN graph.nodes) + TotalOps(graph) + Cardinality(apps)
    + Cardinality(old_models) + Cardinality(new_models)

Editing == pc = "Idle" /\ recorded = 0 /\ EditCount < MaxEdits

\* a migration is written / an operation is recorded in a migration
WriteMigration == Editing /\ AddMigration(MaxNodes)
RecordOperation == Editing /\ AddOperation(DetectOps, MaxTotalOps)

\* a view model is declared in models.py
DeclareView ==
    /\ Editing
    /\ \E v \in ViewModels :
          /\ \A w \in apps : w.db_table # v.db_table
          /\ apps' = apps \cup {v}
    /\ UNCHANGED <<walkVars, stateVars, old_models, new_models, passVars, otherVars>>

\* the plain model as the recorded history knows it
SetOldModel ==
    /\ Editing
    /\ old_models = {}
    /\ \E m \in OldModels : old_models' = {m}
    /\ UNCHANGED <<walkVars, stateVars, apps, new_models, passVars, otherVars>>

\* the plain model as models.py declares it
SetNewModel ==
    /\ Editing
    /\ new_models = {}
    /\ \E m \in NewModels : new_models' = {m}
    /\ UNCHANGED <<walkVars, stateVars, apps, old_models, passVars, otherVars>>

to_state == to_state_models(apps, new_models)

\* ViewMigrationAutoDetector(from_state, to_state):
\* from_state is loader.project_state(), which holds the plain model too
NewAutodetector ==
    /\ pc = "Idle"
    /\ LET loaded == project_state(graph)
       IN  /\ loaded.outcome = "ok"
           /\ from_state' = AddModels(loaded.models, SetToSeq(old_models))
    /\ pc' = "Preparation"
    /\ UNCHANGED <<walkVars, stateVars, modelVars, otherVars, phases, field_keys,
                   generated_operations, migrations>>

\* _detect_changes, lines 43-88: the phase that follows each phase
NextPhaseViewsLast(phase) ==
    CASE phase = "Preparation" -> "RenameDetection"
      [] phase = "RenameDetection" -> "FieldListPrep"
      [] phase = "FieldListPrep" -> "ThroughModelMap"
      [] phase = "ThroughModelMap" -> "RenamedFieldCreation"
      [] phase = "RenamedFieldCreation" -> "RemovedFieldGeneration"
      [] phase = "RemovedFieldGeneration" -> "AddedFieldGeneration"
      [] phase = "AddedFieldGeneration" -> "AlteredFieldGeneration"
      [] phase = "AlteredFieldGeneration" -> "ViewOperationGeneration"
      [] phase = "ViewOperationGeneration" -> "ViewDeletionGeneration"
      [] phase = "ViewDeletionGeneration" -> "IndexDetection"
      [] phase = "IndexDetection" -> "Sort"
      [] phase = "Sort" -> "BuildList"
      [] phase = "BuildList" -> "Optimize"
      [] phase = "Optimize" -> "Done"
NextPhase(phase) ==
    CASE phase = "Preparation" -> "RenameDetection"
      [] phase = "RenameDetection" -> "FieldListPrep"
      [] phase = "FieldListPrep" -> "ThroughModelMap"
      [] phase = "ThroughModelMap" -> "RenamedFieldCreation"
      [] phase = "RenamedFieldCreation" -> "RemovedFieldGeneration"
      [] phase = "RemovedFieldGeneration" -> "ViewOperationGeneration"
      [] phase = "ViewOperationGeneration" -> "ViewDeletionGeneration"
      [] phase = "ViewDeletionGeneration" -> "AddedFieldGeneration"
      [] phase = "AddedFieldGeneration" -> "AlteredFieldGeneration"
      [] phase = "AlteredFieldGeneration" -> "IndexDetection"
      [] phase = "IndexDetection" -> "Sort"
      [] phase = "Sort" -> "BuildList"
      [] phase = "BuildList" -> "Optimize"
      [] phase = "Optimize" -> "Done"

\* a phase runs: the pass moves on to the next one, or stops on an error
Runs(phase, outcome) ==
    /\ pc = phase
    /\ phases' = Append(phases, phase)
    /\ pc' = IF outcome = "ok" THEN NextPhase(phase) ELSE "Failed"
    /\ UNCHANGED <<walkVars, stateVars, modelVars, otherVars, from_state>>

\* self._detect_changes_preparation_django_version_4_and_above(convert_apps)
Preparation ==
    /\ Runs("Preparation", "ok")
    /\ generated_operations' = <<>>
    /\ field_keys' = Preparation_keys(from_state, to_state)
    /\ UNCHANGED migrations

\* self.generate_renamed_models(): no managed model key was collected, so
\* no model is added or renamed
RenameDetection ==
    /\ Runs("RenameDetection", "ok")
    /\ field_keys' = [field_keys EXCEPT !.renamed_models = <<>>]
    /\ UNCHANGED <<generated_operations, migrations>>

\* self._prepare_field_lists()
FieldListPrep ==
    /\ Runs("FieldListPrep", "ok")
    /\ field_keys' = prepare_field_lists(field_keys, from_state, to_state)
    /\ UNCHANGED <<generated_operations, migrations>>

\* self._generate_through_model_map(): a loop over the managed model keys
ThroughModelMap ==
    /\ Runs("ThroughModelMap", "ok")
    /\ UNCHANGED <<field_keys, generated_operations, migrations>>

\* self.create_renamed_fields()
RenamedFieldCreation ==
    /\ Runs("RenamedFieldCreation", "ok")
    /\ \E ask_rename \in BOOLEAN :
          field_keys' = create_renamed_fields(field_keys, from_state, to_state, ask_rename)
    /\ UNCHANGED <<generated_operations, migrations>>

\* self.generate_removed_fields()
RemovedFieldGeneration ==
    /\ Runs("RemovedFieldGeneration", "ok")
    /\ generated_operations' = generate_removed_fields(field_keys, generated_operations)
    /\ UNCHANGED <<field_keys, migrations>>

\* self.generate_views_operations(graph)
ViewOperationGeneration ==
    LET done == generate_views_operations(graph, all_models(apps, new_models),
                    DBViewsRegistry(apps), generated_operations)
    IN  /\ Runs("ViewOperationGeneration", done.outcome)
        /\ generated_operations' = done.generated
        /\ UNCHANGED <<field_keys, migrations>>

\* self.delete_old_views()
ViewDeletionGeneration ==
    /\ Runs("ViewDeletionGeneration", "ok")
    /\ generated_operations' =
          delete_old_views(from_state, DBViewsRegistry(apps), generated_operations)
    /\ UNCHANGED <<field_keys, migrations>>

\* self.generate_added_fields()
AddedFieldGeneration ==
    /\ Runs("AddedFieldGeneration", "ok")
    /\ generated_operations' =
          generate_added_fields(field_keys, to_state, generated_operations)
    /\ UNCHANGED <<field_keys, migrations>>

\* self.generate_altered_fields()
AlteredFieldGeneration ==
    /\ Runs("AlteredFieldGeneration", "ok")
    /\ \E new_default \in {"NOT_PROVIDED", "v"} :
          generated_operations' =
              generate_altered_fields(field_keys, from_state, to_state,
                                      generated_operations, new_default)
    /\ UNCHANGED <<field_keys, migrations>>

\* self.detect_index_changes(); self.drop_indexes(); self.generate_indexes()
IndexDetection ==
    /\ Runs("IndexDetection", "ok")
    /\ UNCHANGED <<field_keys, generated_operations, migrations>>

\* self._sort_migrations()
Sort ==
    /\ Runs("Sort", "ok")
    /\ generated_operations' = sort_migrations(generated_operations)
    /\ UNCHANGED <<field_keys, migrations>>

\* self._build_migration_list(graph)
BuildList ==
    /\ Runs("BuildList", "ok")
    /\ migrations' = build_migration_list(generated_operations, graph)
    /\ generated_operations' = [a \in DOMAIN generated_operations |-> <<>>]
    /\ UNCHANGED field_keys

\* self._optimize_migrations()
Optimize ==
    /\ Runs("Optimize", "ok")
    /\ migrations' = optimize_migrations(migrations)
    /\ UNCHANGED <<field_keys, generated_operations>>

\* the migration of a finished pass is written out as the application's
\* newest migration (the command refuses to write one while the application
\* has conflicting leaves), and the next pass starts from the same models
RecordMigration ==
    /\ pc = "Done"
    /\ recorded < MaxRecorded
    /\ DOMAIN migrations = {App}
    /\ Cardinality(leaf_nodes(graph, App)) <= 1
    /\ LET migration == migrations[App][1]
       IN  /\ \A i \in 1..Len(migration.operations) :
                 migration.operations[i].kind \in {"ViewRunPython", "ViewDropRunPython"}
           /\ graph' = WithNode(graph, <<App, Cardinality(NodesOf(graph, App)) + 1>>,
                                migration.operations, leaf_nodes(graph, App))
    /\ recorded' = recorded + 1
    /\ pc' = "Idle"
    /\ phases' = <<>>
    /\ from_state' = <<>>
    /\ field_keys' = IdleFieldKeys
    /\ generated_operations' = <<>>
    /\ migrations' = <<>>
    /\ walk_args' = <<>>
    /\ walk_result' = NoWalk
    /\ UNCHANGED <<stateVars, modelVars, reduction, schema_editor, database>>

Init ==
    /\ graph = EmptyGraph
    /\ walk_args = <<>>
    /\ walk_result = NoWalk
    /\ StateIdle
    /\ DetectIdle

Next ==
    \/ WriteMigration
    \/ RecordOperation
    \/ DeclareView
    \/ SetOldModel
    \/ SetNewModel
    \/ NewAutodetector
    \/ RecordMigration
    \/ Preparation
    \/ RenameDetection
    \/ FieldListPrep
    \/ ThroughModelMap
    \/ RenamedFieldCreation
    \/ RemovedFieldGeneration
    \/ ViewOperationGeneration
    \/ ViewDeletionGeneration
    \/ AddedFieldGeneration
    \/ AlteredFieldGeneration
    \/ IndexDetection
    \/ Sort
    \/ BuildList
    \/ Optimize

Spec == Init /\ [][Next]_vars

----------------------------------------------------------------------------
(* Properties of the view phases (checked under Spec) *)

\* the definitions a view model declares, by engine
DeclaredDefinitions(v) ==
    IF v.view_definition.form = "dict" THEN v.view_definition.dict
    ELSE [e \in {E1} |-> v.view_definition.text]

DeclaredKeys ==
    UNION {{<<v.db_table, e>> : e \in DOMAIN DeclaredDefinitions(v)} : v \in apps}

\* the whole history, in the order in which it is applied
History == VisitAll(graph, Ascending(AllLeaves(graph)), <<>>)

RecordedFor(key) == MatchingAlong(graph, History, App, key)
LastRecorded(key) == RecordedFor(key)[Len(RecordedFor(key))]

\* the views of the previous snapshot
PreviousViews == {k \in DOMAIN from_state : from_state[k].class = "DBViewModelState"}
PreviousKeys ==
    {<<from_state[k].table_name,
       IF from_state[k].view_engine = None THEN E1 ELSE from_state[k].view_engine>> :
        k \in PreviousViews}

Equivalent(a, b) == sql_normalize(a) = sql_normalize(b)

\* every declared definition is the one recorded last, and the declared
\* views are the views of the previous snapshot
ViewsUnchanged ==
    /\ DeclaredKeys = PreviousKeys
    /\ \A v \in apps : \A e \in DOMAIN DeclaredDefinitions(v) :
          /\ RecordedFor(<<v.db_table, e>>) # <<>>
          /\ Equivalent(DeclaredDefinitions(v)[e],
                        LastRecorded(<<v.db_table, e>>).view_definition)

IsViewOperation(op) == op.kind \in {"ViewRunPython", "ViewDropRunPython"}

GeneratedFor(generated, app_label) ==
    IF app_label \in DOMAIN generated THEN generated[app_label] ELSE <<>>

ViewOperationsOf(app_label) ==
    SelectSeq(GeneratedFor(generated_operations, app_label), IsViewOperation)

\* C4: when every declared view definition is equivalent, after
\* normalization, to the one recorded in history and no view was added or
\* removed, generate_views_operations followed by delete_old_views adds no
\* operation to any application's generated operations.
C4_NoViewOperations ==
    (pc = "AddedFieldGeneration" /\ ViewsUnchanged) =>
        \A app_label \in Apps : ViewOperationsOf(app_label) = <<>>

\* a view operation for the key is recorded somewhere in the history, on
\* either side of a wrapper
RECURSIVE AnyViewOps(_)
AnyViewOps(ops) ==
    IF ops = <<>> THEN <<>>
    ELSE (IF Head(ops).kind = "ViewRunPython" THEN <<Head(ops)>>
          ELSE IF Head(ops).kind = "SeparateDatabaseAndState"
          THEN SelectSeq(Head(ops).database_operations \o Head(ops).state_operations,
                         IsViewRunPython)
          ELSE <<>>)
         \o AnyViewOps(Tail(ops))

NoOperationRecorded(key) ==
    \A k \in NodesOf(graph, App) :
        \A i \in 1..Len(AnyViewOps(graph.nodes[k])) :
            KeyOf(AnyViewOps(graph.nodes[k])[i]) # key

CreatesFor(key) ==
    SelectSeq(GeneratedFor(generated_operations, App),
        LAMBDA o : /\ o.kind = "ViewRunPython"
                   /\ o.table_name = key[1] /\ o.view_engine = key[2])

\* D without the whitespace and then the ';' around it
Trimmed(D) == StripChars(Strip(D), {";"})

\* C5 as stated: a declared view with no view operation recorded for
\* (table, E) makes generate_views_operations emit exactly one Create/Replace
\* pair for (table, E), forward D without its surrounding ';', backward empty.
C5_AsStated ==
    pc \in {"ViewDeletionGeneration", "Failed"} =>
        \A v \in apps : \A e \in DOMAIN DeclaredDefinitions(v) :
            NoOperationRecorded(<<v.db_table, e>>) =>
                LET created == CreatesFor(<<v.db_table, e>>)
                IN  /\ Len(created) = 1
                    /\ created[1].view_definition = Trimmed(DeclaredDefinitions(v)[e])
                    /\ created[1].reverse_definition = <<>>

\* C5 amended: the pair is emitted when D is not blank (its normalization is
\* not empty), and nothing is emitted for a blank D; the pair is not atomic;
\* generate_views_operations fails only when a wrapper of the history holds
\* more than one view operation on its database side.
C5_NewView ==
    /\ pc = "ViewDeletionGeneration" =>
          \A v \in apps : \A e \in DOMAIN DeclaredDefinitions(v) :
              NoOperationRecorded(<<v.db_table, e>>) =>
                  LET created == CreatesFor(<<v.db_table, e>>)
                      D == DeclaredDefinitions(v)[e]
                  IN  IF sql_normalize(D) = <<>> THEN created = <<>>
                      ELSE /\ Len(created) = 1
                           /\ created[1].view_definition = Trimmed(D)
                           /\ created[1].reverse_definition = <<>>
                           /\ ~created[1].atomic
    /\ pc = "Failed" => ~NoAmbiguousWrapper(graph)

\* a view declared as "x;" for the default engine, in a project whose
\* history records another view only, got its pair: forward "x", backward ""
C5_Witness ==
    /\ pc = "ViewDeletionGeneration"
    /\ \E v \in apps :
          /\ v.db_table = T1
          /\ v.view_definition = TextDefinition(<<"x", ";">>)
    /\ NoOperationRecorded(<<T1, E1>>)
    /\ ~NoOperationRecorded(<<T2, E1>>)
    /\ Len(CreatesFor(<<T1, E1>>)) = 1
    /\ CreatesFor(<<T1, E1>>)[1].view_definition = <<"x">>
    /\ CreatesFor(<<T1, E1>>)[1].reverse_definition = <<>>

\* the entries of the previous snapshot whose view is no longer declared
RemovedViews ==
    {k \in PreviousViews : \A v \in apps : v.db_table # from_state[k].table_name}

DropsOf(app_label) ==
    SelectSeq(GeneratedFor(generated_operations, app_label),
        LAMBDA o : o.kind = "ViewDropRunPython")

DropsEntry(op, entry) ==
    /\ op.table_name = entry.table_name
    /\ op.view_engine = entry.view_engine
    /\ op.reverse_definition = entry.view_definition
    /\ ~op.atomic

\* C6: delete_old_views emits exactly one Drop pair for every view entry of
\* the previous snapshot whose table is no longer declared, and none for any
\* other view; the Drop is not atomic, targets the entry's (table, engine)
\* and carries the entry's definition as its backward action.
C6_DropsRemovedViews ==
    pc = "AddedFieldGeneration" =>
        \A app_label \in Apps :
            LET drops == DropsOf(app_label)
                removed == {k \in RemovedViews : k[1] = app_label}
            IN  /\ Len(drops) = Cardinality(removed)
                /\ \A k \in removed :
                      \E i \in 1..Len(drops) : DropsEntry(drops[i], from_state[k])

\* of two views of the previous snapshot one is still declared: the other
\* one, and only it, got its Drop
C6_Witness ==
    /\ pc = "AddedFieldGeneration"
    /\ Cardinality(PreviousViews) = 2
    /\ \E v \in apps : v.db_table = T2
    /\ Cardinality(RemovedViews) = 1
    /\ Len(DropsOf(App)) = 1
    /\ DropsOf(App)[1].table_name = T1
    /\ DropsOf(App)[1].reverse_definition = <<"x">>

----------------------------------------------------------------------------
(* Properties of the field-comment phases and of the pass (under Spec) *)

IsFieldOperation(op) ==
    op.kind \in {"AddFieldComment", "RemoveFieldComment", "AlterFieldComment"}

\* the operations the pass returns for a field of the plain model
ReturnedFor(name) ==
    IF App \notin DOMAIN migrations THEN <<>>
    ELSE SelectSeq(migrations[App][1].operations,
            LAMBDA o : IsFieldOperation(o) /\ o.model_name = PlainName /\ o.name = name)

CommentOnlyChange(old_field, new_field) ==
    /\ old_field.db_comment # new_field.db_comment
    /\ [old_field EXCEPT !.db_comment = <<>>] = [new_field EXCEPT !.db_comment = <<>>]

\* C7 as stated: changing only the comment of a field of a model of both
\* snapshots makes the pass return exactly one AlterFieldComment for the
\* field, and no other operation for it.
C7_AsStated ==
    pc = "Done" =>
        \A o \in old_models : \A n \in new_models :
            \A name \in DOMAIN o.fields \cap DOMAIN n.fields :
                CommentOnlyChange(o.fields[name], n.fields[name]) =>
                    /\ Len(ReturnedFor(name)) = 1
                    /\ ReturnedFor(name)[1].kind = "AlterFieldComment"

\* C7 amended: so it is for a model that is unmanaged in both snapshots; for
\* a model that is managed in one of them the pass returns no operation for
\* the field.
C7_UnmanagedOnly ==
    pc = "Done" =>
        \A o \in old_models : \A n \in new_models :
            \A name \in DOMAIN o.fields \cap DOMAIN n.fields :
                CommentOnlyChange(o.fields[name], n.fields[name]) =>
                    IF ~o.managed /\ ~n.managed
                    THEN /\ Len(ReturnedFor(name)) = 1
                         /\ ReturnedFor(name)[1].kind = "AlterFieldComment"
                         /\ ReturnedFor(name)[1].field = n.fields[name]
                    ELSE ReturnedFor(name) = <<>>

\* the comment of field f of an unmanaged model went from "c" to "d", and
\* the pass returned the one AlterFieldComment
C7_Witness ==
    /\ pc = "Done"
    /\ \E o \in old_models : \E n \in new_models :
          /\ ~o.managed /\ ~n.managed
          /\ "f" \in DOMAIN o.fields /\ "f" \in DOMAIN n.fields
          /\ o.fields["f"] = FA /\ n.fields["f"] = FB
    /\ Len(ReturnedFor("f")) = 1
    /\ ReturnedFor("f")[1].kind = "AlterFieldComment"

ClaimedOrder ==
    <<"Preparation", "RenameDetection", "FieldListPrep", "ThroughModelMap",
      "RenamedFieldCreation", "RemovedFieldGeneration", "ViewOperationGeneration",
      "ViewDeletionGeneration", "AddedFieldGeneration", "AlteredFieldGeneration",
      "IndexDetection", "Sort", "BuildList", "Optimize">>

IsPrefix(s, t) == Len(s) <= Len(t) /\ \A i \in 1..Len(s) : s[i] = t[i]

PhaseIndex(phase) == CHOOSE i \in 1..Len(ClaimedOrder) : ClaimedOrder[i] = phase

AnyGenerated(Test(_)) ==
    \E i \in 1..Len(GeneratedFor(generated_operations, App)) :
        Test(GeneratedFor(generated_operations, App)[i])

PhasesInOrder ==
    /\ IsPrefix(phases, ClaimedOrder)
    /\ pc = "Done" => phases = ClaimedOrder
    /\ pc \notin {"Idle", "Done", "Failed"} =>
          /\ Len(phases) < Len(ClaimedOrder)
          /\ pc = ClaimedOrder[Len(phases) + 1]
          /\ PhaseIndex(pc) <= PhaseIndex("RemovedFieldGeneration") =>
                generated_operations = <<>>
          /\ PhaseIndex(pc) <= PhaseIndex("ViewOperationGeneration") =>
                ~AnyGenerated(IsViewOperation)
          /\ pc = "ViewDeletionGeneration" =>
                ~AnyGenerated(LAMBDA o : o.kind = "ViewDropRunPython")
          /\ PhaseIndex(pc) <= PhaseIndex("AddedFieldGeneration") =>
                ~AnyGenerated(LAMBDA o : o.kind \in {"AddFieldComment", "AlterFieldComment"})

\* C10: the phases of a pass run once each in the order preparation, rename
\* detection, field-list preparation, through-model map, renamed-field
\* creation, removed-field generation, view-operation generation,
\* view-deletion generation, added-field generation, altered-field
\* generation, index detection, sort, build list, optimize; no view operation
\* exists before the removed fields were generated, no added or altered
\* field before the views were handled, no drop before the view operations
\* were generated; index detection leaves the generated operations alone.
C10_PhaseOrder ==
    /\ []PhasesInOrder
    /\ [][pc = "IndexDetection" => generated_operations' = generated_operations]_vars

\* a pass that generated a removed field, a view pair and an added field ran
\* to its end
C10_Witness ==
    /\ pc = "Done"
    /\ phases = ClaimedOrder
    /\ App \in DOMAIN migrations
    /\ \E i, j, k \in 1..Len(migrations[App][1].operations) :
          /\ migrations[App][1].operations[i].kind = "RemoveFieldComment"
          /\ migrations[App][1].operations[j].kind = "ViewRunPython"
          /\ migrations[App][1].operations[k].kind = "AddFieldComment"

----------------------------------------------------------------------------
(* The Create/Replace pair and its round trip (checked under Spec) *)

\* the forward action of a pair, applied to the view entries of a state
ForwardAction(models, app_label, op) ==
    ViewRunPython_state_forwards(op, app_label, models, TRUE).models

\* the backward action of a pair: the previous definition is back, or the
\* view is gone when there was none
BackwardAction(models, app_label, op) ==
    IF op.reverse_definition = <<>>
    THEN remove_model(models, app_label,
            get_table_engine_name_hash(op.table_name, op.view_engine))
    ELSE ViewRunPython_state_forwards(
            [op EXCEPT !.view_definition = op.reverse_definition],
            app_label, models, TRUE).models

ViewEntries == [k \in PreviousViews |-> from_state[k]]

EntryOf(models, app_label, op) ==
    models[<<app_label, get_table_engine_name_hash(op.table_name, op.view_engine)>>]

\* the definition the model declares for the pair's (table, engine)
NewOf(op) ==
    LET v == CHOOSE v \in apps : v.db_table = op.table_name
    IN  DeclaredDefinitions(v)[op.view_engine]

\* the definition the graph walk found for the pair's (table, engine)
OldOf(op) ==
    get_previous_view_definition_state(graph, App, op.table_name, op.view_engine).value

CreatedPairs ==
    SelectSeq(GeneratedFor(generated_operations, App), LAMBDA o : o.kind = "ViewRunPython")

RoundTrip(op) ==
    LET forward == ForwardAction(ViewEntries, App, op)
    IN  ForwardAction(BackwardAction(forward, App, op), App, op) = forward

Recovered(op) ==
    LET forward == ForwardAction(ViewEntries, App, op)
    IN  EntryOf(ForwardAction(BackwardAction(forward, App, op), App, op), App, op)

\* C11 as stated: the pair generated from (old, new) carries new forward and
\* old backward for the same (table, engine); backward and then forward
\* again gives the state of forward alone, and the definition recovered for
\* (table, engine) equals new.
C11_AsStated ==
    pc = "ViewDeletionGeneration" =>
        \A i \in 1..Len(CreatedPairs) :
            LET op == CreatedPairs[i]
            IN  /\ op.view_definition = NewOf(op)
                /\ op.reverse_definition = OldOf(op)
                /\ RoundTrip(op)
                /\ Recovered(op).view_definition = NewOf(op)

\* C11 amended: the forward definition is new stripped of surrounding
\* whitespace and then of surrounding ';', the backward definition is old
\* stripped of surrounding ';'; the round trip gives the state of forward
\* alone, and the definition recovered is the stripped new, for the pair's
\* table and engine.
C11_RoundTrip ==
    pc = "ViewDeletionGeneration" =>
        \A i \in 1..Len(CreatedPairs) :
            LET op == CreatedPairs[i]
            IN  /\ op.view_definition = Trimmed(NewOf(op))
                /\ op.reverse_definition = StripChars(OldOf(op), {";"})
                /\ RoundTrip(op)
                /\ Recovered(op).view_definition = Trimmed(NewOf(op))
                /\ Recovered(op).table_name = op.table_name
                /\ Recovered(op).view_engine = op.view_engine

\* the view recorded by hand as "x;" is declared as "y": the pair carries
\* "y" forward and "x" backward
C11_Witness ==
    /\ pc = "ViewDeletionGeneration"
    /\ Len(CreatedPairs) = 1
    /\ OldOf(CreatedPairs[1]) = <<"x", ";">>
    /\ NewOf(CreatedPairs[1]) = <<"y">>
    /\ CreatedPairs[1].view_definition = <<"y">>
    /\ CreatedPairs[1].reverse_definition = <<"x">>
    /\ RoundTrip(CreatedPairs[1])

----------------------------------------------------------------------------
(* operations.py: AddFieldComment.reduce *)

\* str.lower() of the names of the operations
LowerName(c) ==
    CASE c = "F" -> "f"
      [] c = "M" -> "m"
      [] OTHER -> c
name_lower(name) == LowerName(name)
model_name_lower(model_name) ==
    [i \in 1..Len(model_name) |-> LowerName(model_name[i])]

\* RenameField(model_name, old_name, new_name)
RenameField(model_name, old_name, new_name) ==
    [kind |-> "RenameField", model_name |-> model_name, name |-> old_name,
     new_name |-> new_name, field |-> NoField, preserve_default |-> TRUE,
     dependencies |-> <<>>]

\* isinstance(operation, ...): the comment operations subclass the host's
IsFieldOperationClass(op) ==
    op.kind \in {"AddField", "AddFieldComment", "RemoveField", "RemoveFieldComment",
                 "AlterField", "AlterFieldComment", "RenameField"}
IsAlterField(op) == op.kind \in {"AlterField", "AlterFieldComment"}
IsRemoveField(op) == op.kind \in {"RemoveField", "RemoveFieldComment"}

\* FieldOperation.is_same_field_operation
is_same_field_operation(self, operation) ==
    /\ model_name_lower(self.model_name) = model_name_lower(operation.model_name)
    /\ name_lower(self.name) = name_lower(operation.name)

\* operation.references_field(model_name, name, app_label): the fields of
\* these operations reference no field of the application's model remotely;
\* an operation that is not a field operation may reference anything
references_field(operation, model_name, name, app_label) ==
    IF ~IsFieldOperationClass(operation) THEN TRUE
    ELSE IF operation.kind = "RenameField"
    THEN /\ model_name_lower(model_name) = model_name_lower(operation.model_name)
         /\ name \in {operation.name, operation.new_name}
    ELSE /\ model_name_lower(model_name) = model_name_lower(operation.model_name)
         /\ name = operation.name

ReducedTo(ops) == [kind |-> "list", operations |-> ops, value |-> TRUE]
NotReduced(value) == [kind |-> "bool", operations |-> <<>>, value |-> value]

\* FieldOperation.reduce: no operation here is elidable
FieldOperation_reduce(self, operation, app_label) ==
    NotReduced(~references_field(operation, self.model_name, self.name, app_label))

\* AddField.reduce
AddField_reduce(self, operation, app_label) ==
    IF IsFieldOperationClass(operation) /\ is_same_field_operation(self, operation)
       /\ (IsAlterField(operation) \/ IsRemoveField(operation)
           \/ operation.kind = "RenameField")
    THEN IF IsAlterField(operation)
         THEN ReducedTo(<<FieldOperation("AddField", self.model_name, operation.name,
                                         operation.field, TRUE, <<>>)>>)
         ELSE IF IsRemoveField(operation) THEN ReducedTo(<<>>)
         ELSE ReducedTo(<<FieldOperation("AddField", self.model_name,
                                         operation.new_name, self.field, TRUE, <<>>)>>)
    ELSE FieldOperation_reduce(self, operation, app_label)

\* AddFieldComment.reduce
AddFieldComment_reduce_keeps_field(self, operation, app_label) ==
    IF /\ IsFieldOperationClass(operation)
       /\ is_same_field_operation(self, operation)
       /\ operation.kind = "AlterFieldComment"
    THEN ReducedTo(<<FieldOperation("AddFieldComment", self.model_name, operation.name,
                                    self.field, TRUE, <<>>)>>)
    ELSE AddField_reduce(self, operation, app_label)
AddFieldComment_reduce(self, operation, app_label) ==
    IF /\ IsFieldOperationClass(operation)
       /\ is_same_field_operation(self, operation)
       /\ operation.kind = "AlterFieldComment"
    THEN ReducedTo(<<FieldOperation("AddFieldComment", self.model_name, operation.name,
                                    operation.field, TRUE, <<>>)>>)
    ELSE AddField_reduce(self, operation, app_label)

ReduceModels == {<<"m">>, <<"M">>, <<"n">>}
ReduceNames == {"f", "F", "g"}

ReduceSelves ==
    {FieldOperation("AddFieldComment", model_name, name, field, TRUE, <<>>) :
        model_name \in {<<"m">>, <<"M">>}, name \in {"f", "F"}, field \in {FA, FD}}

ReduceOperations ==
    {FieldOperation(kind, model_name, name, field, preserve_default, <<>>) :
        kind \in {"AddFieldComment", "AlterFieldComment", "AlterField"},
        model_name \in ReduceModels, name \in ReduceNames, field \in {FA, FB},
        preserve_default \in BOOLEAN}
    \cup {FieldOperation(kind, model_name, name, NoField, TRUE, <<>>) :
        kind \in {"RemoveFieldComment", "RemoveField"},
        model_name \in ReduceModels, name \in ReduceNames}
    \cup {RenameField(model_name, name, "g") :
        model_name \in ReduceModels, name \in {"f", "F"}}
    \cup {Vx, Dx}

\* self.reduce(operation, app_label), as the optimizer calls it on an
\* operation and one that follows it
Reduce ==
    /\ \E self \in ReduceSelves, operation \in ReduceOperations :
          reduction' = [called |-> TRUE, self |-> self, operation |-> operation,
                        result |-> AddFieldComment_reduce(self, operation, App)]
    /\ UNCHANGED <<walkVars, stateVars, modelVars, passVars,
                   recorded, schema_editor, database>>

ReduceNext == Reduce

SpecReduce == Init /\ [][ReduceNext]_vars

\* same model and same field, as the host compares names: in lower case
SameField(self, operation) ==
    /\ \/ self.model_name = operation.model_name
       \/ {self.model_name, operation.model_name} = {<<"m">>, <<"M">>}
    /\ \/ self.name = operation.name
       \/ {self.name, operation.name} = {"f", "F"}

\* C12: reducing an AddFieldComment with a following AlterFieldComment on
\* the same model and field (names compared in lower case) yields exactly
\* one operation, an AddFieldComment for that model and field carrying the
\* Alter's field; an AlterFieldComment on another field or model is not
\* merged: the result is no list of operations.
C12_MergesAlter ==
    (reduction.called /\ reduction.operation.kind = "AlterFieldComment") =>
        IF SameField(reduction.self, reduction.operation)
        THEN /\ reduction.result.kind = "list"
             /\ Len(reduction.result.operations) = 1
             /\ reduction.result.operations[1].kind = "AddFieldComment"
             /\ reduction.result.operations[1].model_name = reduction.self.model_name
             /\ reduction.result.operations[1].name = reduction.operation.name
             /\ reduction.result.operations[1].field = reduction.operation.field
        ELSE reduction.result.kind = "bool"

\* an AddFieldComment with comment "c" was reduced with an AlterFieldComment
\* of the same field with comment "d": one AddFieldComment with "d"
C12_Witness ==
    /\ reduction.called
    /\ reduction.operation.kind = "AlterFieldComment"
    /\ reduction.self.model_name = <<"m">> /\ reduction.operation.model_name = <<"m">>
    /\ reduction.self.name = "f" /\ reduction.operation.name = "f"
    /\ reduction.self.field = FA /\ reduction.operation.field = FB
    /\ reduction.result =
          ReducedTo(<<FieldOperation("AddFieldComment", <<"m">>, "f", FB, TRUE, <<>>)>>)

----------------------------------------------------------------------------
(* operations.py: the field-comment operations on a schema editor *)

Executed(columns, outcome) == [columns |-> columns, outcome |-> outcome]

\* schema_editor.execute(*schema_editor._alter_column_comment_sql(...))
alter_column_comment(columns, name, comment) ==
    IF name \notin DOMAIN columns THEN Executed(columns, "ProgrammingError")
    ELSE Executed([columns EXCEPT ![name].comment = comment], "ok")

CommentsApart(editor) ==
    editor.supports_comments /\ ~editor.supports_comments_inline

\* add_field_comment(schema_editor, model, field)
add_field_comment(editor, columns, name, field) ==
    IF field.db_comment # <<>> /\ CommentsApart(editor)
    THEN alter_column_comment(columns, name, field.db_comment)
    ELSE Executed(columns, "ok")

\* remove_field_comment(schema_editor, model, field): a many-to-many field
\* has no column type
remove_field_comment(editor, columns, name, field) ==
    IF many_to_many(field) THEN Executed(columns, "ok")
    ELSE IF field.db_comment # <<>> /\ CommentsApart(editor)
    THEN alter_column_comment(columns, name, <<>>)
    ELSE Executed(columns, "ok")

\* _alter_field_comment(schema_editor, model, old_field, new_field, ...)
alter_field_comment(editor, columns, name, old_field, new_field) ==
    IF /\ editor.supports_comments /\ ~many_to_many(new_field)
       /\ old_field.db_comment # new_field.db_comment
    THEN alter_column_comment(columns, name, new_field.db_comment)
    ELSE Executed(columns, "ok")

\* BaseDatabaseSchemaEditor.add_field: the column, with its comment
real_add_field(editor, columns, name, field) ==
    IF many_to_many(field) THEN Executed(columns, "ok")
    ELSE IF name \in DOMAIN columns THEN Executed(columns, "ProgrammingError")
    ELSE Executed(
            [n \in DOMAIN columns \cup {name} |->
                IF n = name
                THEN [null |-> field.null,
                      comment |-> IF editor.supports_comments
                                  THEN field.db_comment ELSE <<>>]
                ELSE columns[n]],
            "ok")

\* BaseDatabaseSchemaEditor.remove_field: the column is dropped
real_remove_field(editor, columns, name, field) ==
    IF many_to_many(field) THEN Executed(columns, "ok")
    ELSE IF name \notin DOMAIN columns THEN Executed(columns, "ProgrammingError")
    ELSE Executed([n \in DOMAIN columns \ {name} |-> columns[n]], "ok")

\* BaseDatabaseSchemaEditor._alter_field: nullability, then the comment
real_alter_field(editor, columns, name, old_field, new_field) ==
    IF name \notin DOMAIN columns THEN Executed(columns, "ProgrammingError")
    ELSE Executed(
            [columns EXCEPT
                ![name].null = new_field.null,
                ![name].comment =
                    IF editor.supports_comments
                       /\ old_field.db_comment # new_field.db_comment
                    THEN new_field.db_comment ELSE @],
            "ok")

\* schema_editor.add_field(model, field): whatever the attribute is bound to
call_add_field(editor, columns, name, field) ==
    IF editor.add_field = "add_field_comment"
    THEN add_field_comment(editor, columns, name, field)
    ELSE real_add_field(editor, columns, name, field)

call_remove_field(editor, columns, name, field) ==
    IF editor.remove_field = "remove_field_comment"
    THEN remove_field_comment(editor, columns, name, field)
    ELSE real_remove_field(editor, columns, name, field)

\* schema_editor.alter_field(model, old_field, new_field): nothing to do for
\* equal fields, otherwise self._alter_field(...)
call_alter_field(editor, columns, name, old_field, new_field) ==
    IF old_field = new_field THEN Executed(columns, "ok")
    ELSE IF editor.alter_field = "_alter_field_comment"
    THEN alter_field_comment(editor, columns, name, old_field, new_field)
    ELSE real_alter_field(editor, columns, name, old_field, new_field)

\* the assignments of database_forwards (lines 136, 168, 218)
Patched(editor, attribute, function) ==
    CASE attribute = "add_field" -> [editor EXCEPT !.add_field = function]
      [] attribute = "remove_field" -> [editor EXCEPT !.remove_field = function]
      [] attribute = "_alter_field" -> [editor EXCEPT !.alter_field = function]

F0 == Field("CharField", <<>>, TRUE, "NOT_PROVIDED")
EditorFields == {FA, FB, FC, FD, F0}
ColumnFields == {field \in EditorFields : ~many_to_many(field)}
EditorFeatures == {<<TRUE, FALSE>>, <<TRUE, TRUE>>, <<FALSE, FALSE>>}
EditorName == "f"
EditorColumns ==
    {<<>>, [n \in {EditorName} |-> [null |-> TRUE, comment |-> <<>>]]}

\* one database_forwards on the schema editor of the running migration
Forwards(operation, field, old_field, editor, executed) ==
    /\ database' =
          [columns |-> executed.columns,
           last |-> [operation |-> operation, name |-> EditorName,
                     field |-> field, old_field |-> old_field,
                     editor |-> schema_editor, columns |-> database.columns,
                     outcome |-> executed.outcome]]
    /\ schema_editor' = editor
    /\ UNCHANGED <<walkVars, stateVars, modelVars, passVars, recorded, reduction>>

\* AddFieldComment.database_forwards
AddFieldComment_database_forwards ==
    \E field \in EditorFields :
        LET editor == Patched(schema_editor, "add_field", "add_field_comment")
        IN  Forwards("AddFieldComment", field, NoField, editor,
                call_add_field(editor, database.columns, EditorName, field))

\* RemoveFieldComment.database_forwards
RemoveFieldComment_database_forwards ==
    \E field \in EditorFields :
        LET editor == Patched(schema_editor, "remove_field", "remove_field_comment")
        IN  Forwards("RemoveFieldComment", field, NoField, editor,
                call_remove_field(editor, database.columns, EditorName, field))

\* AlterFieldComment.database_forwards
AlterFieldComment_database_forwards ==
    \E from_field \in ColumnFields, to_field \in ColumnFields :
        LET editor == Patched(schema_editor, "_alter_field", "_alter_field_comment")
        IN  Forwards("AlterFieldComment", to_field, from_field, editor,
                call_alter_field(editor, database.columns, EditorName,
                                 from_field, to_field))

\* the host's AddField, RemoveField and AlterField on the same schema editor
AddField_database_forwards ==
    \E field \in EditorFields :
        Forwards("AddField", field, NoField, schema_editor,
            call_add_field(schema_editor, database.columns, EditorName, field))

RemoveField_database_forwards ==
    \E field \in EditorFields :
        Forwards("RemoveField", field, NoField, schema_editor,
            call_remove_field(schema_editor, database.columns, EditorName, field))

AlterField_database_forwards ==
    \E from_field \in ColumnFields, to_field \in ColumnFields :
        Forwards("AlterField", to_field, from_field, schema_editor,
            call_alter_field(schema_editor, database.columns, EditorName,
                             from_field, to_field))

\* the next migration runs in a schema editor of its own
NewSchemaEditor ==
    /\ database.last.operation # "none"
    /\ schema_editor' = SchemaEditor(schema_editor.supports_comments,
                                     schema_editor.supports_comments_inline)
    /\ database' = [database EXCEPT !.last = NoCall]
    /\ UNCHANGED <<walkVars, stateVars, modelVars, passVars, recorded, reduction>>

EditorInit ==
    /\ graph = EmptyGraph
    /\ walk_args = <<>>
    /\ walk_result = NoWalk
    /\ StateIdle
    /\ PassIdle
    /\ schema_editor \in {SchemaEditor(f[1], f[2]) : f \in EditorFeatures}
    /\ database \in {[columns |-> c, last |-> NoCall] : c \in EditorColumns}

EditorNext ==
    \/ AddFieldComment_database_forwards
    \/ RemoveFieldComment_database_forwards
    \/ AlterFieldComment_database_forwards
    \/ AddField_database_forwards
    \/ RemoveField_database_forwards
    \/ AlterField_database_forwards
    \/ NewSchemaEditor

SpecEditor == EditorInit /\ [][EditorNext]_vars

IsCommentOperation(kind) ==
    kind \in {"AddFieldComment", "RemoveFieldComment", "AlterFieldComment"}

\* the three methods of a schema editor
Methods(editor) == <<editor.add_field, editor.remove_field, editor.alter_field>>

\* the column change the host's operation stands for has happened
ColumnChanged(last, columns) ==
    CASE last.operation = "AddField" ->
            many_to_many(last.field) \/ EditorName \in DOMAIN columns
      [] last.operation = "RemoveField" ->
            many_to_many(last.field) \/ EditorName \notin DOMAIN columns
      [] last.operation = "AlterField" ->
            \/ last.field = last.old_field
            \/ /\ EditorName \in DOMAIN columns
               /\ columns[EditorName].null = last.field.null
      [] OTHER -> TRUE

\* C13: after database_forwards of AddFieldComment, RemoveFieldComment or
\* AlterFieldComment the schema editor's add_field, remove_field and
\* _alter_field are what they were before the call, and an AddField,
\* RemoveField or AlterField applied later on the same schema editor, when it
\* succeeds, has made its column change.
C13_EditorRestored ==
    /\ IsCommentOperation(database.last.operation)
          => Methods(schema_editor) = Methods(database.last.editor)
    /\ database.last.outcome = "ok"
          => ColumnChanged(database.last, database.columns)

----------------------------------------------------------------------------
(* The pass after its migration was recorded (checked under Spec) *)

\* the migration recorded from the previous pass: the newest of the application
RecordedMigration == graph.nodes[<<App, Cardinality(NodesOf(graph, App))>>]

RecordedCreates == SelectSeq(RecordedMigration, IsViewRunPython)

\* C14: once the Create/Replace operation emitted for (table, engine) is
\* recorded as the application's newest migration, generate_views_operations
\* run again against the unchanged models emits no operation for that
\* (table, engine), whatever the declared definition.
C14_FixedPoint ==
    (recorded = 1 /\ pc = "ViewDeletionGeneration") =>
        \A i \in 1..Len(RecordedCreates) :
            CreatesFor(KeyOf(RecordedCreates[i])) = <<>>

----------------------------------------------------------------------------
(* A Drop recorded in the history (checked under Spec) *)

\* the operations of the application's migrations, in the order of History
RECURSIVE OperationsAlong(_)
OperationsAlong(plan) ==
    IF plan = <<>> THEN <<>>
    ELSE (IF Head(plan)[1] = App THEN graph.nodes[Head(plan)] ELSE <<>>)
         \o OperationsAlong(Tail(plan))

ViewOperationsFor(key) ==
    SelectSeq(OperationsAlong(History),
        LAMBDA o : IsViewOperation(o) /\ KeyOf(o) = key)

LastIsDrop(key) ==
    /\ ViewOperationsFor(key) # <<>>
    /\ ViewOperationsFor(key)[Len(ViewOperationsFor(key))].kind = "ViewDropRunPython"

\* C15: when the most recent view operation recorded for (table, engine) is
\* a Drop, a view declared for (table, engine) makes
\* generate_views_operations emit a Create/Replace pair for it, even when the
\* declared definition is the one created before the Drop.
C15_RecreatesDropped ==
    pc = "ViewDeletionGeneration" =>
        \A v \in apps : \A e \in DOMAIN DeclaredDefinitions(v) :
            LastIsDrop(<<v.db_table, e>>) =>
                Len(CreatesFor(<<v.db_table, e>>)) = 1

----------------------------------------------------------------------------
(* The state key and the (table_name, engine) pairs (checked under SpecState) *)

PairOf(entry) == <<entry.table_name, entry.view_engine>>

\* the pairs of the application's view entries in a state
PairsOf(models, app_label) ==
    {PairOf(models[k]) : k \in {k \in DOMAIN models : k[1] = app_label}}

AppliedInContext ==
    /\ is_view_migration
    /\ applied.outcome = "ok"
    /\ CreateApplied \/ DropApplied

\* C16: two Create/Replace-Forward operations of one application with
\* different (table_name, engine) pairs leave two entries, and a Drop for one
\* pair never removes the entry of another pair: an operation applied for one
\* pair leaves the entry of every other pair of the application in the state.
C16_InjectiveKey ==
    AppliedInContext =>
        \A pair \in PairsOf(prev_state, applied.app_label) :
            pair # PairOf(applied.operation) =>
                pair \in PairsOf(state, applied.app_label)

====
